---- MODULE Spec2Model ----
(***************************************************************************)
(* The macro substitution engine of public/scripts/macros.js: the macro    *)
(* registry (MacrosParser) and the evaluation pipeline (evaluateMacros).   *)
(*                                                                         *)
(* A JavaScript string is a sequence of one-character strings, so that the *)
(* regular expressions of the source are modelled by what they match.  A   *)
(* text produced by a collaborator whose wording does not matter (a clock  *)
(* format, the source text of a function) is a sequence holding one opaque *)
(* token.                                                                  *)
(***************************************************************************)
EXTENDS Naturals, Integers, Sequences, FiniteSets, TLC

VARIABLES
    macros,        \* MacrosParser.#macros: the Map, as its entries in insertion order
    env,           \* the env object the caller holds, as its own properties in order
    chat_metadata, \* the metadata of the chat: the cached chat id hash, the main chat
    textgenerationwebui_banned_in_macros,  \* the words banned by macros so far
    nonces,        \* how many nonces uuidv4() has handed out
    call,          \* the last call made: what was called, with what, in what state
    threw,         \* whether the last call threw
    out,           \* what the last evaluateMacros call returned
    invoked,       \* the Dynamic values the last evaluateMacros call invoked, in order
    passes,        \* the passes the last evaluateMacros call ran, in order
    substituted,   \* what the env pass of the last evaluateMacros call did, key by key
    current_chat_id,  \* what getCurrentChatId() returns: the id of the open chat
    chat,          \* the messages of the open chat, the oldest first
    main_api       \* the API that generates the replies

vars == <<macros, env, chat_metadata, textgenerationwebui_banned_in_macros,
          nonces, call, threw, out, invoked, passes, substituted,
          current_chat_id, chat, main_api>>

-----------------------------------------------------------------------------
(* Characters and strings.                                                 *)

UpperCase ==
    {"A","B","C","D","E","F","G","H","I","J","K","L","M","N","O","P","Q",
     "R","S","T","U","V","W","X","Y","Z"}

LowerOf ==
    [c \in UpperCase |->
        CASE c = "A" -> "a" [] c = "B" -> "b" [] c = "C" -> "c" [] c = "D" -> "d"
          [] c = "E" -> "e" [] c = "F" -> "f" [] c = "G" -> "g" [] c = "H" -> "h"
          [] c = "I" -> "i" [] c = "J" -> "j" [] c = "K" -> "k" [] c = "L" -> "l"
          [] c = "M" -> "m" [] c = "N" -> "n" [] c = "O" -> "o" [] c = "P" -> "p"
          [] c = "Q" -> "q" [] c = "R" -> "r" [] c = "S" -> "s" [] c = "T" -> "t"
          [] c = "U" -> "u" [] c = "V" -> "v" [] c = "W" -> "w" [] c = "X" -> "x"
          [] c = "Y" -> "y" [] c = "Z" -> "z"]

\* The case folding of the regular expressions' i flag.
Lower(c) == IF c \in UpperCase THEN LowerOf[c] ELSE c

LowerStr(s) == [i \in 1..Len(s) |-> Lower(s[i])]

Whitespace == {" ", "\n", "\r", "\t"}

Digits == {"0","1","2","3","4","5","6","7","8","9"}

LB == <<"{", "{">>
RB == <<"}", "}">>

\* Whether the pattern occurs in s at position i.  MatchAtCI ignores the
\* letter case of s; its pattern is given in lower case.
MatchAt(s, i, pat) ==
    /\ i >= 1
    /\ i + Len(pat) - 1 <= Len(s)
    /\ \A k \in 1..Len(pat) : s[i + k - 1] = pat[k]

MatchAtCI(s, i, lpat) ==
    /\ i >= 1
    /\ i + Len(lpat) - 1 <= Len(s)
    /\ \A k \in 1..Len(lpat) : Lower(s[i + k - 1]) = lpat[k]

\* String.prototype.includes
Includes(s, pat) == \E i \in 1..Len(s) : MatchAt(s, i, pat)

\* String.prototype.startsWith, endsWith
StartsWith(s, pat) == MatchAt(s, 1, pat)
EndsWith(s, pat) == Len(pat) <= Len(s) /\ MatchAt(s, Len(s) - Len(pat) + 1, pat)

\* String.prototype.trim
RECURSIVE TrimStart(_)
TrimStart(s) ==
    IF s # <<>> /\ Head(s) \in Whitespace THEN TrimStart(Tail(s)) ELSE s

RECURSIVE TrimEnd(_)
TrimEnd(s) ==
    IF s # <<>> /\ s[Len(s)] \in Whitespace
    THEN TrimEnd(SubSeq(s, 1, Len(s) - 1)) ELSE s

Trim(s) == TrimEnd(TrimStart(s))

\* The members of a set of numbers in ascending order.
RECURSIVE Ascending(_)
Ascending(P) ==
    IF P = {} THEN <<>>
    ELSE LET least == CHOOSE i \in P : \A j \in P : i <= j
         IN <<least>> \o Ascending(P \ {least})

\* The positions of s, in order, at which the character c stands and, when
\* twice is set, stands twice in a row.
Positions(s, c, twice) ==
    Ascending({i \in 1..Len(s) :
                 s[i] = c /\ (~twice \/ (i < Len(s) /\ s[i + 1] = c))})

(***************************************************************************)
(* A text under rewriting: its characters s, the positions lb at which a   *)
(* {{ starts and the positions lt at which a < stands.  Every pattern of   *)
(* the pipeline starts with one or the other, so a pass looks for its      *)
(* matches at those positions only.                                        *)
(***************************************************************************)
Text(s) == [s |-> s, lb |-> Positions(s, "{", TRUE), lt |-> Positions(s, "<", FALSE)]

\* s with the matches ms replaced: each match is [at, len, ins], the
\* matches are in order and do not overlap.
RECURSIVE Build(_, _, _)
Build(s, ms, i) ==
    IF ms = <<>> THEN SubSeq(s, i, Len(s))
    ELSE SubSeq(s, i, Head(ms).at - 1) \o Head(ms).ins
         \o Build(s, Tail(ms), Head(ms).at + Head(ms).len)

Rewrite(t, ms) == IF ms = <<>> THEN t ELSE Text(Build(t.s, ms, 1))

\* The matches of a g-flagged literal pattern among the candidate
\* positions cand, scanning from the left: a match that starts inside the
\* one before it is not a match.
RECURSIVE LitMatches(_, _, _, _, _)
LitMatches(s, lpat, ins, cand, from) ==
    IF cand = <<>> THEN <<>>
    ELSE IF Head(cand) >= from /\ MatchAtCI(s, Head(cand), lpat)
    THEN <<[at |-> Head(cand), len |-> Len(lpat), ins |-> ins]>>
         \o LitMatches(s, lpat, ins, Tail(cand), Head(cand) + Len(lpat))
    ELSE LitMatches(s, lpat, ins, Tail(cand), from)

\* t.replace(/{{name}}/gi, () => ins)
ReplaceAllCI(t, lpat, ins) == Rewrite(t, LitMatches(t.s, lpat, ins, t.lb, 1))

-----------------------------------------------------------------------------
(* JavaScript values.  ty is what typeof and instanceof tell apart; s is    *)
(* the text the value carries: a string's characters, a number's decimal   *)
(* text, a date's ISO-8601 text, an object's JSON text, and for a function *)
(* the text of what a call of it returns, of type r.                       *)

Str(s) == [ty |-> "string", s |-> s, r |-> "none"]
Undefined == [ty |-> "undefined", s |-> <<>>, r |-> "none"]
Null == [ty |-> "null", s |-> <<>>, r |-> "none"]
Num(s) == [ty |-> "number", s |-> s, r |-> "none"]
\* A plain object with the JSON text s when how is "plain"; an object that
\* refers to itself ("cyclic", which JSON.stringify rejects with a TypeError)
\* or whose toJSON gives undefined ("nojson", for which JSON.stringify gives
\* undefined).
Obj(s, how) == [ty |-> "object", s |-> s, r |-> how]
\* A Date whose ISO text is s when how is "valid"; an Invalid Date otherwise
\* (toISOString rejects it with a RangeError).
Date(s, how) == [ty |-> "date", s |-> s, r |-> how]
Promise == [ty |-> "promise", s |-> <<>>, r |-> "none"]
\* What stands for the value of a call that threw.
Thrown == [ty |-> "thrown", s |-> <<>>, r |-> "none"]
\* A function whose call returns the string s.
Fn(s) == [ty |-> "function", s |-> s, r |-> "string"]

\* A function whose call returns a value of the kind r: a function, a
\* pending Promise or, for any other r, undefined.
FnOf(r) == [ty |-> "function", s |-> <<>>, r |-> r]

\* What a call of the function f returns.
Invoke(f) ==
    CASE f.r = "string" -> Str(f.s)
      [] f.r = "function" -> Fn(<<>>)
      [] f.r = "promise" -> Promise
      [] OTHER -> Undefined

\* The source text of a function, which is what String(f) gives.
FnText(f) == IF f.r = "escape" THEN f.s ELSE <<"function source">>

\* String(v), the coercion that String.prototype.replace and template
\* literals apply.
ToStr(v) ==
    CASE v.ty = "string" -> v.s
      [] v.ty = "undefined" -> <<"u","n","d","e","f","i","n","e","d">>
      [] v.ty = "null" -> <<"n","u","l","l">>
      [] v.ty = "number" -> v.s
      [] v.ty = "function" -> FnText(v)
      [] v.ty = "date" -> <<"date string">>
      [] v.ty = "promise" -> <<"[object Promise]">>
      [] OTHER -> <<"[object Object]">>

\* MacrosParser.sanitizeMacroValue
sanitizeMacroValue(value) ==
    IF value.ty = "string" THEN value
    ELSE IF value.ty \in {"null", "undefined"} THEN Str(<<>>)
    ELSE IF value.ty = "promise" THEN Str(<<>>)
    ELSE IF value.ty = "function" THEN Str(<<>>)
    ELSE IF value.ty = "date"
         THEN IF value.r = "valid" THEN Str(value.s) ELSE Thrown
    ELSE IF value.ty = "object"
         THEN CASE value.r = "cyclic" -> Thrown
                [] value.r = "nojson" -> Undefined
                [] OTHER -> Str(value.s)
    ELSE Str(ToStr(value))

-----------------------------------------------------------------------------
(* Maps and objects: entries [key, value] in insertion order.  A key that  *)
(* is set again keeps its place.                                           *)

Has(m, k) == \E i \in 1..Len(m) : m[i].key = k

Get(m, k) ==
    IF Has(m, k) THEN m[CHOOSE i \in 1..Len(m) : m[i].key = k].value ELSE Undefined

\* A variant of Set that adds an entry without looking for the key.
SetAppending(m, k, v) == Append(m, [key |-> k, value |-> v])

Set(m, k, v) ==
    IF Has(m, k)
    THEN [i \in 1..Len(m) |-> IF m[i].key = k THEN [key |-> k, value |-> v] ELSE m[i]]
    ELSE Append(m, [key |-> k, value |-> v])

RECURSIVE Delete(_, _)
Delete(m, k) ==
    IF m = <<>> THEN <<>>
    ELSE IF Head(m).key = k THEN Tail(m)
    ELSE <<Head(m)>> \o Delete(Tail(m), k)

Keys(m) == {m[i].key : i \in 1..Len(m)}

-----------------------------------------------------------------------------
(* The macro registry.  Each operation gives whether it threw and the      *)
(* registry it leaves.                                                     *)

\* A variant of registerMacro that rejects the braces only when they are on
\* both sides of the key.
registerMacroBothSides(m, key, value) ==
    IF key.ty # "string" THEN [threw |-> TRUE, macros |-> m]
    ELSE LET k == Trim(key.s) IN
         IF k = <<>> THEN [threw |-> TRUE, macros |-> m]
         ELSE IF StartsWith(k, LB) /\ EndsWith(k, RB)
              THEN [threw |-> TRUE, macros |-> m]
         ELSE LET v == IF value.ty # "string" /\ value.ty # "function"
                       THEN sanitizeMacroValue(value)
                       ELSE value
              IN IF v = Thrown THEN [threw |-> TRUE, macros |-> m]
                 ELSE [threw |-> FALSE, macros |-> Set(m, k, v)]

\* MacrosParser.registerMacro
registerMacro(m, key, value) ==
    IF key.ty # "string" THEN [threw |-> TRUE, macros |-> m]
    ELSE LET k == Trim(key.s) IN
         IF k = <<>> THEN [threw |-> TRUE, macros |-> m]
         ELSE IF StartsWith(k, LB) \/ EndsWith(k, RB)
              THEN [threw |-> TRUE, macros |-> m]
         ELSE LET v == IF value.ty # "string" /\ value.ty # "function"
                       THEN sanitizeMacroValue(value)
                       ELSE value
              IN IF v = Thrown THEN [threw |-> TRUE, macros |-> m]
                 ELSE [threw |-> FALSE, macros |-> Set(m, k, v)]

\* A variant of unregisterMacro with the brace check of registerMacro.
unregisterMacroBraceChecked(m, key) ==
    IF key.ty # "string" THEN [threw |-> TRUE, macros |-> m]
    ELSE LET k == Trim(key.s) IN
         IF k = <<>> THEN [threw |-> TRUE, macros |-> m]
         ELSE IF StartsWith(k, LB) \/ EndsWith(k, RB)
              THEN [threw |-> TRUE, macros |-> m]
         ELSE [threw |-> FALSE, macros |-> Delete(m, k)]

\* A variant of unregisterMacro that throws when nothing was deleted.
unregisterMacroStrict(m, key) ==
    IF key.ty # "string" THEN [threw |-> TRUE, macros |-> m]
    ELSE LET k == Trim(key.s) IN
         IF k = <<>> THEN [threw |-> TRUE, macros |-> m]
         ELSE [threw |-> ~Has(m, k), macros |-> Delete(m, k)]

\* MacrosParser.unregisterMacro
unregisterMacro(m, key) ==
    IF key.ty # "string" THEN [threw |-> TRUE, macros |-> m]
    ELSE LET k == Trim(key.s) IN
         IF k = <<>> THEN [threw |-> TRUE, macros |-> m]
         ELSE [threw |-> FALSE, macros |-> Delete(m, k)]

\* MacrosParser.populateEnv: the env object after the call.  e.has is
\* whether the caller passed an object at all.
RECURSIVE SetAll(_, _)
SetAll(props, m) ==
    IF m = <<>> THEN props
    ELSE SetAll(Set(props, Head(m).key, Head(m).value), Tail(m))

\* A variant of populateEnv that leaves the entries the env object has.
populateEnvKeeping(e, m) ==
    IF ~e.has THEN e
    ELSE IF Len(m) = 0 THEN e
    ELSE [e EXCEPT !.props =
             SetAll(e.props, SelectSeq(m, LAMBDA entry : ~Has(e.props, entry.key)))]

populateEnv(e, m) ==
    IF ~e.has THEN e
    ELSE IF Len(m) = 0 THEN e
    ELSE [e EXCEPT !.props = SetAll(e.props, m)]

-----------------------------------------------------------------------------
(* The caller's escape function, varEscape.  "id" is the default x => x;   *)
(* "wrap" puts the text between brackets, so that an escaped insertion,    *)
(* an unescaped one and an insertion of nothing are three different texts. *)

EscapeFns == {"id", "wrap"}

\* varEscape(v)
Escape(esc, v) ==
    IF esc = "id" THEN v ELSE Str(<<"[">> \o ToStr(v) \o <<"]">>)

\* The escape function as a value: String() of it is its source text.
EscapeAsValue(esc) ==
    [ty |-> "function", s |-> <<"source of " \o esc>>, r |-> "escape"]

-----------------------------------------------------------------------------
(* Numbers and their decimal text.                                         *)

DigitValue(c) ==
    CASE c = "0" -> 0 [] c = "1" -> 1 [] c = "2" -> 2 [] c = "3" -> 3 [] c = "4" -> 4
      [] c = "5" -> 5 [] c = "6" -> 6 [] c = "7" -> 7 [] c = "8" -> 8 [] c = "9" -> 9

DigitChar(d) ==
    CASE d = 0 -> "0" [] d = 1 -> "1" [] d = 2 -> "2" [] d = 3 -> "3" [] d = 4 -> "4"
      [] d = 5 -> "5" [] d = 6 -> "6" [] d = 7 -> "7" [] d = 8 -> "8" [] d = 9 -> "9"

\* Number(digits)
RECURSIVE ToNat(_)
ToNat(s) ==
    IF s = <<>> THEN 0
    ELSE 10 * ToNat(SubSeq(s, 1, Len(s) - 1)) + DigitValue(s[Len(s)])

\* String(n) of an integer
RECURSIVE DecNat(_)
DecNat(n) ==
    IF n < 10 THEN <<DigitChar(n)>> ELSE DecNat(n \div 10) \o <<DigitChar(n % 10)>>

Dec(n) == IF n < 0 THEN <<"-">> \o DecNat(0 - n) ELSE DecNat(n)

AllDigits(s) == \A i \in 1..Len(s) : s[i] \in Digits

\* utils.isDigitsOnly: /^\d+$/
isDigitsOnly(s) == s # <<>> /\ AllDigits(s)

\* The length of the longest run of characters outside stop that starts at i.
RECURSIVE RunLen(_, _, _)
RunLen(s, i, stop) ==
    IF i > Len(s) \/ s[i] \in stop THEN 0 ELSE 1 + RunLen(s, i + 1, stop)

-----------------------------------------------------------------------------
(* The dice collaborator, droll.  A formula is [N]dS[+M|-M]; N and S are   *)
(* written without a leading zero.                                         *)

\* /^[1-9]\d*$/
IsCount(s) == s # <<>> /\ AllDigits(s) /\ s[1] # "0"

\* droll.parse
drollParse(f) ==
    LET n == RunLen(f, 1, {"d", "D"})
        rest == SubSeq(f, n + 2, Len(f))
        m == RunLen(rest, 1, {"+", "-"})
        sides == SubSeq(rest, 1, m)
        modifier == SubSeq(rest, m + 2, Len(rest))
        bad == [ok |-> FALSE, numDice |-> 0, numSides |-> 0, modifier |-> 0]
    IN  IF n >= Len(f) THEN bad
        ELSE IF n > 0 /\ ~IsCount(SubSeq(f, 1, n)) THEN bad
        ELSE IF ~IsCount(sides) THEN bad
        ELSE IF m < Len(rest) /\ ~isDigitsOnly(modifier) THEN bad
        ELSE [ok |-> TRUE,
              numDice |-> IF n = 0 THEN 1 ELSE ToNat(SubSeq(f, 1, n)),
              numSides |-> ToNat(sides),
              modifier |-> IF m = Len(rest) THEN 0
                           ELSE IF rest[m + 1] = "-" THEN 0 - ToNat(modifier)
                           ELSE ToNat(modifier)]

\* droll.validate
drollValidate(f) == drollParse(f).ok

-----------------------------------------------------------------------------
(* Randomness.  Math.random and the entropy-seeded generator give r/RndDen *)
(* for an r in 0..RndDen-1; rnd is the sequence of the r drawn during one  *)
(* evaluation, in order.                                                   *)

RndDen == 6
MaxDraws == 2

Draw(rnd, j) == IF j <= Len(rnd) THEN rnd[j] ELSE 0

\* One die: 1 + Math.floor(Math.random() * numSides)
Die(rnd, j, sides) == 1 + ((Draw(rnd, j) * sides) \div RndDen)

\* droll.roll(f).total, the dice drawn from position k + 1 of rnd on.
RECURSIVE SumDice(_, _, _, _)
SumDice(rnd, k, n, sides) ==
    IF n = 0 THEN 0 ELSE Die(rnd, k + n, sides) + SumDice(rnd, k, n - 1, sides)

drollTotal(p, rnd, k) == SumDice(rnd, k, p.numDice, p.numSides) + p.modifier

-----------------------------------------------------------------------------
(* diceRollReplace: /{{roll[ : ]([^}]+)}}/gi                               *)

pRoll == <<"{", "{", "r", "o", "l", "l">>

\* The length of the formula captured by a match that starts at i; 0 when
\* the pattern does not match there.
rollMatch(s, i) ==
    IF MatchAtCI(s, i, pRoll) /\ i + 6 <= Len(s) /\ s[i + 6] \in {" ", ":"}
    THEN LET n == RunLen(s, i + 7, {"}"})
         IN IF n > 0 /\ MatchAt(s, i + 7 + n, RB) THEN n ELSE 0
    ELSE 0

\* A variant of rollFormula that rolls a number as it is written.
rollFormulaAsWritten(matchValue) == Trim(matchValue)

\* The formula a directive is rolled with.
rollFormula(matchValue) ==
    LET formula == Trim(matchValue)
    IN IF isDigitsOnly(formula) THEN <<"1", "d">> \o formula ELSE formula

\* What the callback returns for the captured matchValue, the dice drawn
\* from position k + 1 of rnd on.
rollInsert(matchValue, invalidRollPlaceholder, varEscape, rnd, k) ==
    LET formula == rollFormula(matchValue)
    IN IF ~drollValidate(formula) THEN ToStr(invalidRollPlaceholder)
       ELSE ToStr(Escape(varEscape,
                         Str(Dec(drollTotal(drollParse(formula), rnd, k)))))

rollDraws(matchValue) ==
    LET p == drollParse(rollFormula(matchValue)) IN IF p.ok THEN p.numDice ELSE 0

RECURSIVE rollMatches(_, _, _, _, _, _, _)
rollMatches(s, cand, from, invalidRollPlaceholder, varEscape, rnd, k) ==
    IF cand = <<>> THEN <<>>
    ELSE LET i == Head(cand)
             n == IF i >= from THEN rollMatch(s, i) ELSE 0
         IN IF n = 0
            THEN rollMatches(s, Tail(cand), from, invalidRollPlaceholder, varEscape, rnd, k)
            ELSE LET matchValue == SubSeq(s, i + 7, i + 6 + n) IN
                 <<[at |-> i, len |-> n + 9, draws |-> rollDraws(matchValue),
                    ins |-> rollInsert(matchValue, invalidRollPlaceholder, varEscape, rnd, k)]>>
                 \o rollMatches(s, Tail(cand), i + n + 9, invalidRollPlaceholder,
                                varEscape, rnd, k + rollDraws(matchValue))

RECURSIVE SumDraws(_)
SumDraws(ms) == IF ms = <<>> THEN 0 ELSE Head(ms).draws + SumDraws(Tail(ms))

\* diceRollReplace(input, invalidRollPlaceholder = '', varEscape = (x => x)):
\* the text it returns and the number of dice it rolled.
diceRollReplace(input, invalidRollPlaceholder, varEscape, rnd) ==
    LET ms == rollMatches(input.s, input.lb, 1, invalidRollPlaceholder,
                          varEscape, rnd, 0)
    IN [text |-> Rewrite(input, ms), draws |-> SumDraws(ms)]

-----------------------------------------------------------------------------
(* String.prototype.replace with a replacement string: the patterns $$, $& *)
(* and $' of the replacement are expanded at every match.  (No text of the *)
(* model holds the fourth pattern, $ with a backtick.)                     *)

RECURSIVE ExpandDollar(_, _, _, _, _)
ExpandDollar(rep, j, s, i, n) ==
    IF j > Len(rep) THEN <<>>
    ELSE IF rep[j] = "$" /\ j < Len(rep) /\ rep[j + 1] \in {"$", "&", "'"}
    THEN (CASE rep[j + 1] = "$" -> <<"$">>
            [] rep[j + 1] = "&" -> SubSeq(s, i, i + n - 1)
            [] OTHER -> SubSeq(s, i + n, Len(s)))
         \o ExpandDollar(rep, j + 2, s, i, n)
    ELSE <<rep[j]>> \o ExpandDollar(rep, j + 1, s, i, n)

RECURSIVE StrMatches(_, _, _, _, _)
StrMatches(s, lpat, rep, cand, from) ==
    IF cand = <<>> THEN <<>>
    ELSE IF Head(cand) >= from /\ MatchAtCI(s, Head(cand), lpat)
    THEN <<[at |-> Head(cand), len |-> Len(lpat),
            ins |-> ExpandDollar(rep, 1, s, Head(cand), Len(lpat))]>>
         \o StrMatches(s, lpat, rep, Tail(cand), Head(cand) + Len(lpat))
    ELSE StrMatches(s, lpat, rep, Tail(cand), from)

\* t.replace(/<TAG>/gi, rep) for a string rep
ReplaceTagCI(t, lpat, rep) == Rewrite(t, StrMatches(t.s, lpat, rep, t.lt, 1))

-----------------------------------------------------------------------------
(* evaluateMacros, lines 428-433: the legacy angle-bracket tags.           *)

kUser == <<"u", "s", "e", "r">>
kChar == <<"c", "h", "a", "r">>
kGroup == <<"g", "r", "o", "u", "p">>

tUser == <<"<", "u", "s", "e", "r", ">">>
tBot == <<"<", "b", "o", "t", ">">>
tChar == <<"<", "c", "h", "a", "r", ">">>
tCharIfNotGroup == <<"<", "c", "h", "a", "r", "i", "f", "n", "o", "t", "g", "r", "o", "u", "p", ">">>
tGroup == <<"<", "g", "r", "o", "u", "p", ">">>

\* typeof env.k === 'function' ? env.k() : env.k
legacyValue(e, k) ==
    LET v == Get(e.props, k) IN IF v.ty = "function" THEN Invoke(v) ELSE v

\* The replacement argument of one line: it is computed whether or not the
\* tag occurs.
legacyArg(e, k, esc) == ToStr(Escape(esc, legacyValue(e, k)))

legacyReplace(content, e, esc) ==
    LET c1 == ReplaceTagCI(content, tUser, legacyArg(e, kUser, esc))
        c2 == ReplaceTagCI(c1, tBot, legacyArg(e, kChar, esc))
        c3 == ReplaceTagCI(c2, tChar, legacyArg(e, kChar, esc))
        c4 == ReplaceTagCI(c3, tCharIfNotGroup, legacyArg(e, kGroup, esc))
    IN ReplaceTagCI(c4, tGroup, legacyArg(e, kGroup, esc))

\* The calls of Dynamic values these five lines make, each without a nonce
\* (nonce 0): one of env.user, two of env.char, two of env.group.
legacyInvoked(e) ==
    LET one(k) == IF Get(e.props, k).ty = "function"
                  THEN <<[key |-> k, nonce |-> 0]>> ELSE <<>>
    IN one(kUser) \o one(kChar) \o one(kChar) \o one(kGroup) \o one(kGroup)

-----------------------------------------------------------------------------
(* evaluateMacros, lines 443-446: newline, trim, noop, input.              *)

Mac(name) == LB \o name \o RB

pNewline == <<"{", "{", "n", "e", "w", "l", "i", "n", "e", "}", "}">>
pTrim == <<"{", "{", "t", "r", "i", "m", "}", "}">>
pNoop == <<"{", "{", "n", "o", "o", "p", "}", "}">>
pInput == <<"{", "{", "i", "n", "p", "u", "t", "}", "}">>

\* The length of the run of (?:\r?\n)* that starts at i, and of the one
\* that ends before j and starts at from or later.
RECURSIVE NLRun(_, _)
NLRun(s, i) ==
    IF i <= Len(s) /\ s[i] = "\n" THEN 1 + NLRun(s, i + 1)
    ELSE IF i < Len(s) /\ s[i] = "\r" /\ s[i + 1] = "\n" THEN 2 + NLRun(s, i + 2)
    ELSE 0

RECURSIVE NLBack(_, _, _)
NLBack(s, j, from) ==
    IF j - 1 >= from /\ s[j - 1] = "\n"
    THEN IF j - 2 >= from /\ s[j - 2] = "\r" THEN 2 + NLBack(s, j - 2, from)
         ELSE 1 + NLBack(s, j - 1, from)
    ELSE 0

\* content.replace(/(?:\r?\n)*{{trim}}(?:\r?\n)*/gi, '')
RECURSIVE trimMatches(_, _, _)
trimMatches(s, cand, from) ==
    IF cand = <<>> THEN <<>>
    ELSE IF Head(cand) >= from /\ MatchAtCI(s, Head(cand), pTrim)
    THEN LET j == Head(cand)
             a == NLBack(s, j, from)
             b == NLRun(s, j + Len(pTrim))
         IN <<[at |-> j - a, len |-> a + Len(pTrim) + b, ins |-> <<>>]>>
            \o trimMatches(s, Tail(cand), j + Len(pTrim) + b)
    ELSE trimMatches(s, Tail(cand), from)

trimReplace(t) == Rewrite(t, trimMatches(t.s, t.lb, 1))

\* $('#send_textarea').val(): what the user has typed and not sent.
send_textarea == <<"h", "i">>

simpleReplace(content, esc) ==
    LET c1 == ReplaceAllCI(content, pNewline, ToStr(Escape(esc, Str(<<"\n">>))))
        c2 == trimReplace(c1)
        c3 == ReplaceAllCI(c2, pNoop, <<>>)
    IN ReplaceAllCI(c3, pInput, ToStr(Escape(esc, Str(send_textarea))))

-----------------------------------------------------------------------------
(* evaluateMacros, lines 453-461: the env pass.  The keys are taken in the *)
(* order of for-in, which is insertion order for the names used here (none *)
(* is an integer index).  The pattern of a key is the key between braces, *)
(* matched character by character in any letter case; this is what the    *)
(* RegExp of line 456 does for every key that is not made of digits and    *)
(* commas only (between braces those would read as a quantifier), and no   *)
(* key used here is.                                                       *)

\* What the callback inserts for one match of {{varName}}.
envInsert(param, esc) ==
    LET value == sanitizeMacroValue(IF param.ty = "function" THEN Invoke(param) ELSE param)
    IN IF value = Thrown THEN Thrown ELSE Str(ToStr(Escape(esc, value)))

\* A variant of envSubs that goes through the keys a second time.
RECURSIVE envSubsTwice(_, _, _, _)
envSubsTwice(content, props, i, esc) ==
    IF i > 2 * Len(props) THEN <<>>
    ELSE LET p == props[((i - 1) % Len(props)) + 1]
             ins == envInsert(p.value, esc)
             ms == LitMatches(content.s, LowerStr(Mac(p.key)), ins.s, content.lb, 1)
             after == Rewrite(content, ms)
             sub == [key |-> p.key, dynamic |-> p.value.ty = "function",
                     before |-> content.s, after |-> after.s, n |-> Len(ms),
                     ins |-> ins.s, threw |-> FALSE]
         IN IF ins = Thrown /\ ms # <<>>
            THEN <<[sub EXCEPT !.after = content.s, !.n = 0, !.threw = TRUE]>>
            ELSE <<sub>> \o envSubsTwice(after, props, i + 1, esc)

\* What each key's pass does, in order: the text it finds, the text it
\* leaves, the number of matches it replaces and what it inserts for each.
\* The callback runs once per match, so that a value sanitizeMacroValue
\* throws on ends the evaluation at the first match of its key.
RECURSIVE envSubs(_, _, _, _)
envSubs(content, props, i, esc) ==
    IF i > Len(props) THEN <<>>
    ELSE LET ins == envInsert(props[i].value, esc)
             ms == LitMatches(content.s, LowerStr(Mac(props[i].key)), ins.s, content.lb, 1)
             after == Rewrite(content, ms)
             sub == [key |-> props[i].key, dynamic |-> props[i].value.ty = "function",
                     before |-> content.s, after |-> after.s, n |-> Len(ms),
                     ins |-> ins.s, threw |-> FALSE]
         IN IF ins = Thrown /\ ms # <<>>
            THEN <<[sub EXCEPT !.after = content.s, !.n = 0, !.threw = TRUE]>>
            ELSE <<sub>> \o envSubs(after, props, i + 1, esc)

\* The env pass ended in a throw.
envThrew(subs) == subs # <<>> /\ subs[Len(subs)].threw

\* The text the env pass leaves.
envReplace(content, subs) ==
    IF subs = <<>> THEN content.s ELSE subs[Len(subs)].after

\* A variant of envInvoked whose calls are made without the nonce.
RECURSIVE envInvokedBare(_, _)
envInvokedBare(subs, nonce) ==
    IF subs = <<>> THEN <<>>
    ELSE (IF Head(subs).dynamic
          THEN [j \in 1..Head(subs).n |-> [key |-> Head(subs).key, nonce |-> 0]]
          ELSE <<>>)
         \o envInvokedBare(Tail(subs), nonce)

\* The calls of Dynamic values the env pass makes: one per match, each
\* with the nonce of the evaluation.
RECURSIVE envInvoked(_, _)
envInvoked(subs, nonce) ==
    IF subs = <<>> THEN <<>>
    ELSE (IF Head(subs).dynamic
          THEN [j \in 1..Head(subs).n |-> [key |-> Head(subs).key, nonce |-> nonce]]
          ELSE <<>>)
         \o envInvoked(Tail(subs), nonce)

-----------------------------------------------------------------------------
(* The chat.  A message is [is_user, is_system, mes, send_date, swipes,    *)
(* swipe_id]: send_date is 0 when the message has none; swipes is the      *)
(* number of swipes, or -1 when the message carries no swipes array;       *)
(* swipe_id is the index of the selected swipe, or -1 when the message has *)
(* no swipe_id (undefined).  A message id is an index from 0; NoId is the  *)
(* null that getLastMessageId gives when it finds none.                    *)

NoId == -1

\* getLastMessageId({ exclude_swipe_in_propress, filter }); filter is
\* "none", "user" (m.is_user && !m.is_system) or "char".
RECURSIVE lastMessageFrom(_, _, _, _)
lastMessageFrom(c, i, exclude_swipe_in_propress, filter) ==
    IF i < 1 THEN NoId
    ELSE LET message == c[i] IN
         IF exclude_swipe_in_propress /\ message.swipes >= 0
            /\ message.swipe_id >= message.swipes
         THEN lastMessageFrom(c, i - 1, exclude_swipe_in_propress, filter)
         ELSE IF \/ filter = "none"
                 \/ filter = "user" /\ message.is_user /\ ~message.is_system
                 \/ filter = "char" /\ ~message.is_user /\ ~message.is_system
         THEN i - 1
         ELSE lastMessageFrom(c, i - 1, exclude_swipe_in_propress, filter)

getLastMessageId(c, exclude_swipe_in_propress, filter) ==
    lastMessageFrom(c, Len(c), exclude_swipe_in_propress, filter)

\* chat[mid]?.mes ?? ''
mesOf(c, mid) == IF mid = NoId THEN <<>> ELSE c[mid + 1].mes

getLastMessage(c) == mesOf(c, getLastMessageId(c, TRUE, "none"))
getLastUserMessage(c) == mesOf(c, getLastMessageId(c, TRUE, "user"))
getLastCharMessage(c) == mesOf(c, getLastMessageId(c, TRUE, "char"))

\* String(getLastMessageId() ?? '')
lastMessageIdText(c) ==
    LET mid == getLastMessageId(c, TRUE, "none")
    IN IF mid = NoId THEN <<>> ELSE Dec(mid)

\* String(getLastSwipeId() ?? ''): swipes?.length is undefined without a
\* message or without a swipes array.
lastSwipeIdText(c) ==
    LET mid == getLastMessageId(c, FALSE, "none")
    IN IF mid = NoId \/ c[mid + 1].swipes < 0 THEN <<>> ELSE Dec(c[mid + 1].swipes)

\* String(getCurrentSwipeId() ?? ''): swipeId !== null ? swipeId + 1 : null,
\* and undefined + 1 is NaN.
currentSwipeIdText(c) ==
    LET mid == getLastMessageId(c, FALSE, "none")
    IN IF mid = NoId \/ c[mid + 1].swipe_id < 0 THEN <<"N", "a", "N">>
       ELSE Dec(c[mid + 1].swipe_id + 1)

\* getMaxContextSize()
max_context == 4096

\* String(getFirstIncludedMessageId() ?? ''): the page marks no message as
\* the last in context.
firstIncludedMessageIdText == <<>>

-----------------------------------------------------------------------------
(* evaluateMacros, lines 463-471: the built-in macros.                     *)

pMaxPrompt == <<"{", "{", "m", "a", "x", "p", "r", "o", "m", "p", "t", "}", "}">>
pLastMessage == <<"{", "{", "l", "a", "s", "t", "m", "e", "s", "s", "a", "g", "e", "}", "}">>
pLastMessageId == <<"{", "{", "l", "a", "s", "t", "m", "e", "s", "s", "a", "g", "e", "i", "d", "}", "}">>
pLastUserMessage == <<"{", "{", "l", "a", "s", "t", "u", "s", "e", "r", "m", "e", "s", "s", "a", "g", "e", "}", "}">>
pLastCharMessage == <<"{", "{", "l", "a", "s", "t", "c", "h", "a", "r", "m", "e", "s", "s", "a", "g", "e", "}", "}">>
pFirstIncluded == <<"{", "{", "f", "i", "r", "s", "t", "i", "n", "c", "l", "u", "d", "e", "d", "m", "e", "s", "s", "a", "g", "e", "i", "d", "}", "}">>
pLastSwipeId == <<"{", "{", "l", "a", "s", "t", "s", "w", "i", "p", "e", "i", "d", "}", "}">>
pCurrentSwipeId == <<"{", "{", "c", "u", "r", "r", "e", "n", "t", "s", "w", "i", "p", "e", "i", "d", "}", "}">>
pReverse == <<"{", "{", "r", "e", "v", "e", "r", "s", "e", ":">>

Reverse(s) == [i \in 1..Len(s) |-> s[Len(s) + 1 - i]]

\* /{{reverse:(.+?)}}/gi: the length of the shortest capture of one or
\* more characters of one line that }} follows; 0 when there is none.
RECURSIVE lazyDot(_, _, _)
lazyDot(s, i, n) ==
    IF i + n > Len(s) \/ s[i + n - 1] \in {"\n", "\r"} THEN 0
    ELSE IF MatchAt(s, i + n, RB) THEN n
    ELSE lazyDot(s, i, n + 1)

RECURSIVE reverseMatches(_, _, _, _)
reverseMatches(s, cand, from, esc) ==
    IF cand = <<>> THEN <<>>
    ELSE LET i == Head(cand)
             n == IF i >= from /\ MatchAtCI(s, i, pReverse) /\ i + 10 <= Len(s)
                  THEN lazyDot(s, i + 10, 1) ELSE 0
         IN IF n = 0 THEN reverseMatches(s, Tail(cand), from, esc)
            ELSE <<[at |-> i, len |-> n + 12,
                    ins |-> ToStr(Escape(esc, Str(Reverse(SubSeq(s, i + 10, i + 9 + n)))))]>>
                 \o reverseMatches(s, Tail(cand), i + n + 12, esc)

builtinReplace(content, c, esc) ==
    LET E(s) == ToStr(Escape(esc, Str(s)))
        c1 == ReplaceAllCI(content, pMaxPrompt, E(Dec(max_context)))
        c2 == ReplaceAllCI(c1, pLastMessage, E(getLastMessage(c)))
        c3 == ReplaceAllCI(c2, pLastMessageId, E(lastMessageIdText(c)))
        c4 == ReplaceAllCI(c3, pLastUserMessage, E(getLastUserMessage(c)))
        c5 == ReplaceAllCI(c4, pLastCharMessage, E(getLastCharMessage(c)))
        c6 == ReplaceAllCI(c5, pFirstIncluded, E(firstIncludedMessageIdText))
        c7 == ReplaceAllCI(c6, pLastSwipeId, E(lastSwipeIdText(c)))
        c8 == ReplaceAllCI(c7, pCurrentSwipeId, E(currentSwipeIdText(c)))
    IN Rewrite(c8, reverseMatches(c8.s, c8.lb, 1, esc))

-----------------------------------------------------------------------------
(* evaluateMacros, line 473: comments, /\{\{\/\/([\s\S]*?)\}\}/gm.         *)

pComment == <<"{", "{", "/", "/">>

\* A variant of firstRB that does not look past the end of the line.
RECURSIVE firstRBOnLine(_, _)
firstRBOnLine(s, i) ==
    IF i >= Len(s) \/ s[i] = "\n" THEN 0
    ELSE IF s[i] = "}" /\ s[i + 1] = "}" THEN i
    ELSE firstRBOnLine(s, i + 1)

\* The position of the first }} at i or later; 0 when there is none.
RECURSIVE firstRB(_, _)
firstRB(s, i) ==
    IF i >= Len(s) THEN 0
    ELSE IF s[i] = "}" /\ s[i + 1] = "}" THEN i
    ELSE firstRB(s, i + 1)

RECURSIVE commentMatches(_, _, _)
commentMatches(s, cand, from) ==
    IF cand = <<>> THEN <<>>
    ELSE LET i == Head(cand)
             q == IF i >= from /\ MatchAt(s, i, pComment) THEN firstRB(s, i + 4) ELSE 0
         IN IF q = 0 THEN commentMatches(s, Tail(cand), from)
            ELSE <<[at |-> i, len |-> q + 2 - i, ins |-> <<>>]>>
                 \o commentMatches(s, Tail(cand), q + 2)

commentReplace(t) == Rewrite(t, commentMatches(t.s, t.lb, 1))

-----------------------------------------------------------------------------
(* evaluateMacros, lines 475-489: the clock.  What moment prints is not    *)
(* computed: the text of the clock under a format is one token that names  *)
(* the format.                                                             *)

pTime == <<"{", "{", "t", "i", "m", "e", "}", "}">>
pDate == <<"{", "{", "d", "a", "t", "e", "}", "}">>
pWeekday == <<"{", "{", "w", "e", "e", "k", "d", "a", "y", "}", "}">>
pIsotime == <<"{", "{", "i", "s", "o", "t", "i", "m", "e", "}", "}">>
pIsodate == <<"{", "{", "i", "s", "o", "d", "a", "t", "e", "}", "}">>
pDatetimeformat == <<"{", "{", "d", "a", "t", "e", "t", "i", "m", "e", "f", "o", "r", "m", "a", "t">>
pIdleDuration == <<"{", "{", "i", "d", "l", "e", "_", "d", "u", "r", "a", "t", "i", "o", "n", "}", "}">>
pTimeUTC == <<"{", "{", "t", "i", "m", "e", "_", "u", "t", "c">>
pTimeDiff == <<"{", "{", "t", "i", "m", "e", "d", "i", "f", "f", ":", ":">>

\* moment().format(format)
momentFormat(format) == <<"now as ">> \o format

\* The length of the run of characters of the set only that starts at i.
RECURSIVE RunOf(_, _, _)
RunOf(s, i, only) ==
    IF i > Len(s) \/ s[i] \notin only THEN 0 ELSE 1 + RunOf(s, i + 1, only)

\* /{{datetimeformat +([^}]*)}}/gi
RECURSIVE datetimeformatMatches(_, _, _, _)
datetimeformatMatches(s, cand, from, esc) ==
    IF cand = <<>> THEN <<>>
    ELSE LET i == Head(cand)
             sp == IF i >= from /\ MatchAtCI(s, i, pDatetimeformat)
                   THEN RunOf(s, i + 16, {" "}) ELSE 0
             n == RunLen(s, i + 16 + sp, {"}"})
         IN IF sp = 0 \/ ~MatchAt(s, i + 16 + sp + n, RB)
            THEN datetimeformatMatches(s, Tail(cand), from, esc)
            ELSE <<[at |-> i, len |-> 18 + sp + n,
                    ins |-> ToStr(Escape(esc, Str(momentFormat(
                                SubSeq(s, i + 16 + sp, i + 15 + sp + n)))))]>>
                 \o datetimeformatMatches(s, Tail(cand), i + 18 + sp + n, esc)

\* getTimeSinceLastMessage: the message the loop stops at, as an index
\* from 1, or 0 when it stops at none.
\* A variant of idleFrom that takes the first message of the user it meets.
RECURSIVE idleFromLatest(_, _, _)
idleFromLatest(c, i, takeNext) ==
    IF i < 1 THEN 0
    ELSE IF c[i].is_system THEN idleFromLatest(c, i - 1, takeNext)
    ELSE IF c[i].is_user THEN i
    ELSE idleFromLatest(c, i - 1, TRUE)

RECURSIVE idleFrom(_, _, _)
idleFrom(c, i, takeNext) ==
    IF i < 1 THEN 0
    ELSE IF c[i].is_system THEN idleFrom(c, i - 1, takeNext)
    ELSE IF c[i].is_user /\ takeNext THEN i
    ELSE idleFrom(c, i - 1, TRUE)

getTimeSinceLastMessage(c) ==
    LET i == idleFrom(c, Len(c), FALSE)
    IN IF i > 0 /\ c[i].send_date # 0
       THEN <<"time since ">> \o Dec(c[i].send_date)
       ELSE <<"j", "u", "s", "t", " ", "n", "o", "w">>

\* /{{time_UTC([-+]\d+)}}/gi
RECURSIVE timeUTCMatches(_, _, _, _)
timeUTCMatches(s, cand, from, esc) ==
    IF cand = <<>> THEN <<>>
    ELSE LET i == Head(cand)
             n == IF i >= from /\ MatchAtCI(s, i, pTimeUTC) /\ i + 10 <= Len(s)
                     /\ s[i + 10] \in {"-", "+"}
                  THEN RunOf(s, i + 11, Digits) ELSE 0
         IN IF n = 0 \/ ~MatchAt(s, i + 11 + n, RB)
            THEN timeUTCMatches(s, Tail(cand), from, esc)
            ELSE <<[at |-> i, len |-> 13 + n,
                    ins |-> ToStr(Escape(esc, Str(<<"now at UTC">>
                                \o SubSeq(s, i + 10, i + 10 + n))))]>>
                 \o timeUTCMatches(s, Tail(cand), i + 13 + n, esc)

\* The length of the shortest run of characters of one line from i on that
\* pat follows; -1 when there is none.
RECURSIVE lazyUntil(_, _, _, _)
lazyUntil(s, i, n, pat) ==
    IF MatchAt(s, i + n, pat) THEN n
    ELSE IF i + n > Len(s) \/ s[i + n] \in {"\n", "\r"} THEN -1
    ELSE lazyUntil(s, i, n + 1, pat)

\* timeDiffReplace: /{{timeDiff::(.*?)::(.*?)}}/gi
RECURSIVE timeDiffMatches(_, _, _, _)
timeDiffMatches(s, cand, from, varEscape) ==
    IF cand = <<>> THEN <<>>
    ELSE LET i == Head(cand)
             a == IF i >= from /\ MatchAtCI(s, i, pTimeDiff)
                  THEN lazyUntil(s, i + 12, 0, <<":", ":">>) ELSE -1
             b == IF a < 0 THEN -1 ELSE lazyUntil(s, i + 14 + a, 0, RB)
         IN IF b < 0 THEN timeDiffMatches(s, Tail(cand), from, varEscape)
            ELSE <<[at |-> i, len |-> 16 + a + b,
                    ins |-> ToStr(Escape(varEscape, Str(<<"from ">>
                                \o SubSeq(s, i + 14 + a, i + 13 + a + b)
                                \o <<" to ">> \o SubSeq(s, i + 12, i + 11 + a))))]>>
                 \o timeDiffMatches(s, Tail(cand), i + 16 + a + b, varEscape)

timeDiffReplace(input, varEscape) ==
    Rewrite(input, timeDiffMatches(input.s, input.lb, 1, varEscape))

timeReplace(content, c, esc) ==
    LET E(format) == ToStr(Escape(esc, Str(momentFormat(format))))
        c1 == ReplaceAllCI(content, pTime, E(<<"L", "T">>))
        c2 == ReplaceAllCI(c1, pDate, E(<<"L", "L">>))
        c3 == ReplaceAllCI(c2, pWeekday, E(<<"d", "d", "d", "d">>))
        c4 == ReplaceAllCI(c3, pIsotime, E(<<"H", "H", ":", "m", "m">>))
        c5 == ReplaceAllCI(c4, pIsodate, E(<<"Y", "Y", "Y", "Y", "-", "M", "M", "-", "D", "D">>))
        c6 == Rewrite(c5, datetimeformatMatches(c5.s, c5.lb, 1, esc))
        c7 == ReplaceAllCI(c6, pIdleDuration, getTimeSinceLastMessage(c))
        c8 == Rewrite(c7, timeUTCMatches(c7.s, c7.lb, 1, esc))
    IN timeDiffReplace(c8, esc)

-----------------------------------------------------------------------------
(* bannedWordsReplace: the pattern is {{banned, a space, a quoted greedy   *)
(* run of characters of one line and }}, with the flags gi.                *)

pBanned == <<"{", "{", "b", "a", "n", "n", "e", "d", " ", "\"">>
pBannedEnd == <<"\"", "}", "}">>

\* The greedy run: the position of the last closing quote with }} after
\* it that stands at i or later, looking back from j; 0 when there is none.
RECURSIVE lastBannedEnd(_, _, _)
lastBannedEnd(s, i, j) ==
    IF j < i THEN 0
    ELSE IF MatchAt(s, j, pBannedEnd) THEN j
    ELSE lastBannedEnd(s, i, j - 1)

RECURSIVE banMatches(_, _, _)
banMatches(s, cand, from) ==
    IF cand = <<>> THEN <<>>
    ELSE LET i == Head(cand)
             q == IF i >= from /\ MatchAtCI(s, i, pBanned)
                  THEN lastBannedEnd(s, i + 10, i + 10 + RunLen(s, i + 10, {"\n", "\r"}))
                  ELSE 0
         IN IF q = 0 THEN banMatches(s, Tail(cand), from)
            ELSE <<[at |-> i, len |-> q + 3 - i, ins |-> <<>>,
                    word |-> SubSeq(s, i + 10, q - 1)]>>
                 \o banMatches(s, Tail(cand), q + 3)

\* A variant of bannedWordsReplace that pushes the words whatever the API is.
bannedWordsReplaceAnyApi(inText, api) ==
    LET bans == banMatches(inText.s, inText.lb, 1)
    IN [text |-> Rewrite(inText, bans),
        pushed |-> [j \in 1..Len(bans) |-> bans[j].word]]

\* The text bannedWordsReplace returns and the words it pushes.
bannedWordsReplace(inText, api) ==
    LET bans == banMatches(inText.s, inText.lb, 1)
    IN [text |-> Rewrite(inText, bans),
        pushed |-> IF api = "textgenerationwebui"
                   THEN [j \in 1..Len(bans) |-> bans[j].word] ELSE <<>>]

-----------------------------------------------------------------------------
(* randomReplace and pickReplace: the list of a directive.                 *)

\* listString.split('::')
RECURSIVE SplitColons(_, _, _)
SplitColons(s, i, from) ==
    IF i > Len(s) THEN <<SubSeq(s, from, Len(s))>>
    ELSE IF MatchAt(s, i, <<":", ":">>)
    THEN <<SubSeq(s, from, i - 1)>> \o SplitColons(s, i + 2, i + 2)
    ELSE SplitColons(s, i + 1, from)

\* listString.replace(/\\,/g, placeholder): an escaped comma becomes one
\* character that is neither a comma nor white space.
RECURSIVE HideCommas(_, _)
HideCommas(s, i) ==
    IF i > Len(s) THEN <<>>
    ELSE IF s[i] = "\\" /\ i < Len(s) /\ s[i + 1] = ","
    THEN <<"escaped comma">> \o HideCommas(s, i + 2)
    ELSE <<s[i]>> \o HideCommas(s, i + 1)

ShowCommas(s) == [i \in 1..Len(s) |-> IF s[i] = "escaped comma" THEN "," ELSE s[i]]

RECURSIVE SplitCommas(_, _, _)
SplitCommas(s, i, from) ==
    IF i > Len(s) THEN <<ShowCommas(Trim(SubSeq(s, from, Len(s))))>>
    ELSE IF s[i] = ","
    THEN <<ShowCommas(Trim(SubSeq(s, from, i - 1)))>> \o SplitCommas(s, i + 1, i + 1)
    ELSE SplitCommas(s, i + 1, from)

\* A variant of listOf that splits at the commas only.
listOfCommasOnly(listString) == SplitCommas(HideCommas(listString, 1), 1, 1)

listOf(listString) ==
    IF Includes(listString, <<":", ":">>) THEN SplitColons(listString, 1, 1)
    ELSE SplitCommas(HideCommas(listString, 1), 1, 1)

\* /{{random\s?::?([^}]+)}}/gi and /{{pick\s?::?([^}]+)}}/gi after the
\* name, whose last character stands at i - 1: where the captured list
\* starts and how long it is; length 0 when the pattern does not match.
listCapture(s, i) ==
    LET j == IF i <= Len(s) /\ s[i] \in Whitespace THEN i + 1 ELSE i
        k == j + 1
        n == RunLen(s, k, {"}"})
    IN IF j > Len(s) \/ s[j] # ":" \/ ~MatchAt(s, k + n, RB) THEN [at |-> k, n |-> 0]
       ELSE IF n >= 2 /\ s[k] = ":" THEN [at |-> k + 1, n |-> n - 1]
       ELSE [at |-> k, n |-> n]

pRandom == <<"{", "{", "r", "a", "n", "d", "o", "m">>
pPick == <<"{", "{", "p", "i", "c", "k">>

\* A variant of IndexOf that always gives the first item.
IndexOfFirst(d, len) == 1

\* Math.floor(rng() * list.length) for the draw d of RndDen
IndexOf(d, len) == 1 + ((d * len) \div RndDen)

\* randomReplace(input, emptyListPlaceholder = '', varEscape = (x => x)):
\* the draws are taken from position k + 1 of rnd on.
RECURSIVE randomMatches(_, _, _, _, _, _, _)
randomMatches(s, cand, from, emptyListPlaceholder, varEscape, rnd, k) ==
    IF cand = <<>> THEN <<>>
    ELSE LET i == Head(cand)
             cap == IF i >= from /\ MatchAtCI(s, i, pRandom)
                    THEN listCapture(s, i + 8) ELSE [at |-> i, n |-> 0]
         IN IF cap.n = 0
            THEN randomMatches(s, Tail(cand), from, emptyListPlaceholder, varEscape, rnd, k)
            ELSE LET list == listOf(SubSeq(s, cap.at, cap.at + cap.n - 1))
                     randomIndex == IndexOf(Draw(rnd, k + 1), Len(list))
                 IN <<[at |-> i, len |-> cap.at + cap.n + 2 - i,
                       ins |-> IF Len(list) = 0 THEN ToStr(emptyListPlaceholder)
                               ELSE ToStr(Escape(varEscape, Str(list[randomIndex])))]>>
                    \o randomMatches(s, Tail(cand), cap.at + cap.n + 2,
                                     emptyListPlaceholder, varEscape, rnd, k + 1)

randomReplace(input, emptyListPlaceholder, varEscape, rnd, k) ==
    Rewrite(input, randomMatches(input.s, input.lb, 1, emptyListPlaceholder,
                                 varEscape, rnd, k))

-----------------------------------------------------------------------------
(* pickReplace.  getStringHash and seedrandom are collaborators: the hash  *)
(* of a text is a number computed from its characters, the hash of what is *)
(* not a string is 0, and a seeded generator draws the number its seed     *)
(* determines.                                                             *)

HashMod == 97

CharCode(c) ==
    IF c \in Digits THEN 1 + DigitValue(c)
    ELSE IF c = "-" THEN 11
    ELSE IF c \in UpperCase THEN 12
    ELSE IF c \in {"a", "e", "i", "o", "u"} THEN 13
    ELSE 14

RECURSIVE HashFrom(_, _, _)
HashFrom(s, i, h) ==
    IF i > Len(s) THEN h
    ELSE HashFrom(s, i + 1, (h * 31 + CharCode(s[i])) % HashMod)

\* getStringHash(str)
getStringHash(str) == IF str.ty # "string" THEN 0 ELSE HashFrom(str.s, 1, 7)

\* seedrandom(seed)(), as a draw of RndDen
seedrandom(seed) == seed % RndDen

\* getChatIdHash: the hash it returns and the chat metadata it leaves.
\* The metadata is [has_hash, chat_id_hash, main_chat].
getChatIdHash(meta) ==
    IF ~meta.has_hash \/ meta.chat_id_hash = 0
    THEN LET chatId == IF meta.main_chat.ty \in {"undefined", "null"}
                       THEN current_chat_id ELSE meta.main_chat
             chatIdHash == getStringHash(chatId)
         IN [hash |-> chatIdHash,
             meta |-> [meta EXCEPT !.has_hash = TRUE, !.chat_id_hash = chatIdHash]]
    ELSE [hash |-> meta.chat_id_hash, meta |-> meta]

RECURSIVE pickMatches(_, _, _, _, _, _, _)
pickMatches(s, cand, from, chatIdHash, rawContentHash, emptyListPlaceholder, varEscape) ==
    IF cand = <<>> THEN <<>>
    ELSE LET i == Head(cand)
             cap == IF i >= from /\ MatchAtCI(s, i, pPick)
                    THEN listCapture(s, i + 6) ELSE [at |-> i, n |-> 0]
         IN IF cap.n = 0
            THEN pickMatches(s, Tail(cand), from, chatIdHash, rawContentHash,
                             emptyListPlaceholder, varEscape)
            ELSE LET list == listOf(SubSeq(s, cap.at, cap.at + cap.n - 1))
                     offset == i - 1
                     combinedSeedString == Dec(chatIdHash) \o <<"-">>
                                           \o Dec(rawContentHash) \o <<"-">> \o Dec(offset)
                     finalSeed == getStringHash(Str(combinedSeedString))
                     randomIndex == IndexOf(seedrandom(finalSeed), Len(list))
                 IN <<[at |-> i, len |-> cap.at + cap.n + 2 - i,
                       ins |-> IF Len(list) = 0 THEN ToStr(emptyListPlaceholder)
                               ELSE ToStr(Escape(varEscape, Str(list[randomIndex])))]>>
                    \o pickMatches(s, Tail(cand), cap.at + cap.n + 2, chatIdHash,
                                   rawContentHash, emptyListPlaceholder, varEscape)

\* A variant of pickReplace that asks for the chat id hash when it finds a
\* pick directive only.
pickReplaceLazyHash(input, rawContent, emptyListPlaceholder, varEscape, meta) ==
    LET h == getChatIdHash(meta)
        ms == pickMatches(input.s, input.lb, 1, h.hash, getStringHash(Str(rawContent)),
                          emptyListPlaceholder, varEscape)
    IN [text |-> Rewrite(input, ms),
        meta |-> IF ms = <<>> THEN meta ELSE h.meta]

\* pickReplace(input, rawContent, emptyListPlaceholder = '', varEscape = (x => x)):
\* the text it returns and the chat metadata it leaves.
pickReplace(input, rawContent, emptyListPlaceholder, varEscape, meta) ==
    LET h == getChatIdHash(meta)
    IN [text |-> Rewrite(input, pickMatches(input.s, input.lb, 1, h.hash,
                             getStringHash(Str(rawContent)),
                             emptyListPlaceholder, varEscape)),
        meta |-> h.meta]

-----------------------------------------------------------------------------
(* evaluateMacros(content, env, varEscape).  The model gives what the call *)
(* returns or that it threw, the env object, the chat metadata and the     *)
(* banned words it leaves, the calls of Dynamic values it made, the passes *)
(* it ran and what the env pass did for each key.  replaceInstructMacros   *)
(* and replaceVariableMacros (lines 441-442) rewrite directives that no    *)
(* text of the model holds.                                                *)

\* The chat and the API a session starts with.
chat0 ==
    <<[is_user |-> TRUE, is_system |-> FALSE, mes |-> <<"y", "o">>,
       send_date |-> 5, swipes |-> -1, swipe_id |-> -1],
      [is_user |-> FALSE, is_system |-> FALSE, mes |-> <<"o", "k">>,
       send_date |-> 7, swipes |-> 2, swipe_id |-> 1],
      [is_user |-> TRUE, is_system |-> FALSE, mes |-> <<"h", "m">>,
       send_date |-> 9, swipes |-> -1, swipe_id |-> -1]>>

api0 == "textgenerationwebui"

\* The passes run one after the other: After(v, w) is w once v is computed.
\* (TLC computes a definition of a LET where it is first used, which without
\* this is inside the pass that follows.)
After(v, w) == IF v = v THEN w ELSE w

AllPasses == <<"legacy", "dice", "simple", "env", "builtin", "comment",
               "time", "banned", "random", "pick">>

\* What a call that does nothing gives.
NoResult(e, meta) ==
    [threw |-> FALSE, out |-> <<>>, env |-> e, meta |-> meta, pushed |-> <<>>,
     invoked |-> <<>>, passes |-> <<>>, subs |-> <<>>, fresh |-> FALSE]

\* A variant of laterPasses that rolls the dice after the env pass instead
\* of before it.
laterPassesDiceAfterEnv(content, legacy, e, esc, m, meta, rnd, nonce) ==
    LET simple == simpleReplace(legacy, esc)
        e2 == populateEnv(e, m)
        subs == envSubs(simple, e2.props, 1, esc)
        dice == diceRollReplace(Text(envReplace(simple, subs)), EscapeAsValue(esc), "id", rnd)
        builtin == builtinReplace(dice.text, chat, esc)
        time == timeReplace(commentReplace(builtin), chat, esc)
        banned == bannedWordsReplace(time, main_api)
        random == randomReplace(banned.text, EscapeAsValue(esc), "id", rnd, dice.draws)
        pick == pickReplace(random, content, EscapeAsValue(esc), "id", meta)
    IN After(simple, After(subs, After(dice, After(builtin, After(time,
       After(banned, After(random, After(pick,
       [threw |-> envThrew(subs), out |-> pick.text.s, env |-> e2, meta |-> pick.meta,
        pushed |-> banned.pushed,
        invoked |-> legacyInvoked(e) \o envInvoked(subs, nonce),
        passes |-> AllPasses, subs |-> subs, fresh |-> TRUE]))))))))

\* Lines 440-493: everything after the short circuit, on the text legacy
\* that the legacy tags left of content.
laterPasses(content, legacy, e, esc, m, meta, rnd, nonce) ==
    LET dice == diceRollReplace(legacy, EscapeAsValue(esc), "id", rnd)
        simple == simpleReplace(dice.text, esc)
        e2 == populateEnv(e, m)
        subs == envSubs(simple, e2.props, 1, esc)
        builtin == builtinReplace(Text(envReplace(simple, subs)), chat, esc)
        time == timeReplace(commentReplace(builtin), chat, esc)
        banned == bannedWordsReplace(time, main_api)
        random == randomReplace(banned.text, EscapeAsValue(esc), "id", rnd, dice.draws)
        pick == pickReplace(random, content, EscapeAsValue(esc), "id", meta)
    IN IF envThrew(subs)
       THEN [NoResult(e2, meta) EXCEPT !.threw = TRUE,
                                       !.invoked = legacyInvoked(e) \o envInvoked(subs, nonce),
                                       !.passes = SubSeq(AllPasses, 1, 4),
                                       !.subs = subs, !.fresh = TRUE]
       ELSE
       After(dice, After(simple, After(subs, After(builtin, After(time,
       After(banned, After(random, After(pick,
       [threw |-> FALSE, out |-> pick.text.s, env |-> e2, meta |-> pick.meta,
        pushed |-> banned.pushed,
        invoked |-> legacyInvoked(e) \o envInvoked(subs, nonce),
        passes |-> AllPasses, subs |-> subs, fresh |-> TRUE]))))))))

\* A variant of evaluateMacros that runs every pass on every text.
evaluateMacrosEveryPass(content, e, esc, m, meta, rnd, nonce) ==
    IF content = <<>> THEN NoResult(e, meta)
    ELSE IF ~e.has THEN [NoResult(e, meta) EXCEPT !.threw = TRUE]
    ELSE laterPasses(content, legacyReplace(Text(content), e, esc),
                     e, esc, m, meta, rnd, nonce)

evaluateMacros(content, e, esc, m, meta, rnd, nonce) ==
    IF content = <<>> THEN NoResult(e, meta)
    ELSE IF ~e.has THEN [NoResult(e, meta) EXCEPT !.threw = TRUE]
    ELSE LET legacy == legacyReplace(Text(content), e, esc) IN
         IF legacy.lb = <<>>
         THEN [NoResult(e, meta) EXCEPT !.out = legacy.s,
                                        !.invoked = legacyInvoked(e),
                                        !.passes = <<"legacy">>]
         ELSE laterPasses(content, legacy, e, esc, m, meta, rnd, nonce)

-----------------------------------------------------------------------------
(* The inputs of the calls.                                                *)

nFoo == <<"f", "o", "o">>
nFooCap == <<"F", "o", "o">>
vA == Str(<<"A">>)
vB == Str(<<"B">>)
vX == Str(<<"X">>)
vD == Fn(<<"D">>)

NoEnv == [has |-> FALSE, props |-> <<>>]
EnvOf(props) == [has |-> TRUE, props |-> props]

\* The env objects a caller passes: none at all, one with the names of
\* the legacy tags, and one that also provides foo.
EnvChoices ==
    {NoEnv,
     EnvOf(<<[key |-> kUser, value |-> Str(<<"A", "l">>)],
             [key |-> kChar, value |-> Fn(<<"B", "o">>)]>>),
     EnvOf(<<[key |-> kUser, value |-> Str(<<"$", "&">>)],
             [key |-> nFoo, value |-> vA]>>)}

RegKeys == {Str(nFoo)}
RegValues == {vB, vD}

MaxNonces == 2
MaxBanned == 1

\* Texts that hold no {{ once the legacy tags are replaced.
PlainContents ==
    {<<>>,
     <<"h", "i">>,
     <<"<", "U", "S", "E", "R", ">", "!">>,
     <<"a", "<", "b", "o", "t", ">", "{", "b", "}">>}

\* Texts that are one roll directive.
DiceContents ==
    {<<"{", "{", "r", "o", "l", "l", ":", "n", "o", "t", "a", "f", "o", "r", "m", "u", "l", "a", "}", "}">>,
     <<"{", "{", "r", "o", "l", "l", ":", "4", "}", "}">>,
     <<"{", "{", "r", "o", "l", "l", ":", "1", "d", "4", "}", "}">>,
     <<"{", "{", "r", "o", "l", "l", ":", "2", "0", "}", "}">>,
     <<"{", "{", "r", "o", "l", "l", ":", "2", "d", "6", "}", "}">>,
     <<"{", "{", "r", "o", "l", "l", " ", "d", "4", "+", "2", "}", "}">>}

\* Texts that are one directive that a value replaces.
ValueContents ==
    {<<"{", "{", "f", "o", "o", "}", "}">>,
     <<"{", "{", "u", "s", "e", "r", "}", "}">>,
     <<"{", "{", "i", "n", "p", "u", "t", "}", "}">>,
     <<"{", "{", "n", "e", "w", "l", "i", "n", "e", "}", "}">>,
     <<"{", "{", "l", "a", "s", "t", "M", "e", "s", "s", "a", "g", "e", "}", "}">>,
     <<"{", "{", "m", "a", "x", "P", "r", "o", "m", "p", "t", "}", "}">>,
     <<"{", "{", "r", "e", "v", "e", "r", "s", "e", ":", "a", "b", "}", "}">>,
     <<"{", "{", "t", "i", "m", "e", "}", "}">>,
     <<"{", "{", "d", "a", "t", "e", "t", "i", "m", "e", "f", "o", "r", "m", "a", "t", " ", "H", "H", "}", "}">>,
     <<"{", "{", "t", "i", "m", "e", "_", "U", "T", "C", "+", "2", "}", "}">>,
     <<"{", "{", "t", "i", "m", "e", "D", "i", "f", "f", ":", ":", "a", ":", ":", "b", "}", "}">>,
     <<"{", "{", "r", "a", "n", "d", "o", "m", ":", "a", ",", "b", "}", "}">>,
     <<"{", "{", "p", "i", "c", "k", ":", ":", "a", ":", ":", "b", "}", "}">>}

\* Texts whose directives insert nothing, or something that is not escaped.
OtherContents ==
    {<<"{", "{", "/", "/", "n", "}", "}">>,
     <<"{", "{", "b", "a", "n", "n", "e", "d", " ", "\"", "x", "\"", "}", "}">>,
     <<"{", "{", "n", "o", "o", "p", "}", "}">>,
     <<"a", "\n", "{", "{", "t", "r", "i", "m", "}", "}", "\n", "b">>,
     <<"{", "{", "i", "d", "l", "e", "_", "d", "u", "r", "a", "t", "i", "o", "n", "}", "}">>,
     <<"{", "{", "F", "O", "O", "}", "}", "<", "b", "o", "t", ">", "{", "{", "z", "}", "}">>}

Contents == PlainContents \cup DiceContents \cup ValueContents \cup OtherContents

\* How many numbers the evaluation of a text draws: one per die rolled and
\* one per random directive.
DrawsOf(content) ==
    LET t == Text(content)
    IN SumDraws(rollMatches(t.s, t.lb, 1, Undefined, "id", <<>>, 0))
       + Len(randomMatches(t.s, t.lb, 1, Undefined, "id", <<>>, 0))

\* What the random number generator may give during one evaluation: one
\* number out of RndDen per draw.
Oracles(content) ==
    LET n == IF DrawsOf(content) > MaxDraws THEN MaxDraws ELSE DrawsOf(content)
    IN [1..n -> 0..(RndDen - 1)]

\* The texts among the values of props, one after the other: what the env
\* pass may put into the text for the later passes to read.
RECURSIVE ValueTexts(_)
ValueTexts(props) ==
    IF props = <<>> THEN <<>>
    ELSE (IF Head(props).value.ty = "string" THEN Head(props).value.s ELSE <<>>)
         \o ValueTexts(Tail(props))

\* Ids of chats.
cChat1 == Str(<<"c", "h", "a", "t", "-", "1">>)

NoMeta == [has_hash |-> FALSE, chat_id_hash |-> 0, main_chat |-> Undefined]

NoCall == [op |-> "none", key |-> Undefined, value |-> Undefined,
           content |-> <<>>, esc |-> "id", rnd |-> <<>>,
           macros |-> <<>>, env |-> NoEnv, meta |-> NoMeta, banned |-> <<>>,
           nonces |-> 0, chat_id |-> Undefined, chat |-> <<>>]

-----------------------------------------------------------------------------
(* The state machine.  A call is made when no call is in progress; its     *)
(* result stays observable, with the state the call was made in, until the *)
(* caller takes it (Return).                                               *)

Init ==
    /\ macros = <<>>
    /\ env = NoEnv
    /\ chat_metadata = NoMeta
    /\ textgenerationwebui_banned_in_macros = <<>>
    /\ nonces = 0
    /\ call = NoCall
    /\ threw = FALSE
    /\ out = <<>>
    /\ invoked = <<>>
    /\ passes = <<>>
    /\ substituted = <<>>
    /\ current_chat_id = cChat1
    /\ chat = chat0
    /\ main_api = api0

\* The state a call is made in.
Calling(op) ==
    [NoCall EXCEPT !.op = op, !.macros = macros, !.env = env,
                   !.meta = chat_metadata,
                   !.banned = textgenerationwebui_banned_in_macros,
                   !.nonces = nonces, !.chat_id = current_chat_id, !.chat = chat]

\* MacrosParser.registerMacro(key, value), for the keys Ks and values Vs
RegisterIn(Ks, Vs) ==
    /\ call.op = "none"
    /\ \E key \in Ks, value \in Vs :
         \E r \in {registerMacro(macros, key, value)} :
            /\ macros' = r.macros
            /\ threw' = r.threw
            /\ call' = [Calling("register") EXCEPT !.key = key, !.value = value]
    /\ UNCHANGED <<env, chat_metadata, textgenerationwebui_banned_in_macros,
                   nonces, out, invoked, passes, substituted, current_chat_id, chat, main_api>>

\* MacrosParser.unregisterMacro(key), for the keys Ks
UnregisterIn(Ks) ==
    /\ call.op = "none"
    /\ \E key \in Ks :
         \E r \in {unregisterMacro(macros, key)} :
            /\ macros' = r.macros
            /\ threw' = r.threw
            /\ call' = [Calling("unregister") EXCEPT !.key = key]
    /\ UNCHANGED <<env, chat_metadata, textgenerationwebui_banned_in_macros,
                   nonces, out, invoked, passes, substituted, current_chat_id, chat, main_api>>

\* The caller makes the env object of its next evaluation, one of Es.
NewEnvIn(Es) ==
    /\ call.op = "none"
    /\ \E e \in Es : e # env /\ env' = e
    /\ UNCHANGED <<macros, chat_metadata, textgenerationwebui_banned_in_macros,
                   nonces, call, threw, out, invoked, passes, substituted,
                   current_chat_id, chat, main_api>>

\* evaluateMacros(content, env, varEscape), for the contents Cs
EvaluateIn(Cs) ==
    /\ call.op = "none"
    /\ nonces < MaxNonces
    /\ \E content \in Cs, esc \in EscapeFns :
         \E rnd \in Oracles(content \o ValueTexts(env.props) \o ValueTexts(macros)) :
            \E r \in {evaluateMacros(content, env, esc, macros, chat_metadata,
                                     rnd, nonces + 1)} :
               /\ Len(textgenerationwebui_banned_in_macros) + Len(r.pushed) <= MaxBanned
               /\ threw' = r.threw
               /\ out' = r.out
               /\ env' = r.env
               /\ chat_metadata' = r.meta
               /\ textgenerationwebui_banned_in_macros' =
                     textgenerationwebui_banned_in_macros \o r.pushed
               /\ nonces' = IF r.fresh THEN nonces + 1 ELSE nonces
               /\ invoked' = r.invoked
               /\ passes' = r.passes
               /\ substituted' = r.subs
               /\ call' = [Calling("evaluate") EXCEPT !.content = content,
                                                      !.esc = esc, !.rnd = rnd]
    /\ UNCHANGED <<macros, current_chat_id, chat, main_api>>

\* The caller takes the result of the call.
Return ==
    /\ call.op # "none"
    /\ call' = NoCall
    /\ threw' = FALSE
    /\ out' = <<>>
    /\ invoked' = <<>>
    /\ passes' = <<>>
    /\ substituted' = <<>>
    /\ UNCHANGED <<macros, env, chat_metadata, textgenerationwebui_banned_in_macros,
                   nonces, current_chat_id, chat, main_api>>

\* The open chat is renamed, closed or changed for another: getCurrentChatId()
\* returns one of Ids from now on, and the chat metadata stays.
RenameChatIn(Ids) ==
    /\ call.op = "none"
    /\ \E id \in Ids : id # current_chat_id /\ current_chat_id' = id
    /\ UNCHANGED <<macros, env, chat_metadata, textgenerationwebui_banned_in_macros,
                   nonces, call, threw, out, invoked, passes, substituted,
                   chat, main_api>>

\* The chat becomes a branch of, or is detached from, a main chat:
\* chat_metadata['main_chat'] is set to one of Ms.
BranchIn(Ms) ==
    /\ call.op = "none"
    /\ \E m \in Ms : /\ m # chat_metadata.main_chat
                      /\ chat_metadata' = [chat_metadata EXCEPT !.main_chat = m]
    /\ UNCHANGED <<macros, env, textgenerationwebui_banned_in_macros, nonces, call,
                   threw, out, invoked, passes, substituted, current_chat_id, chat, main_api>>

\* Messages are sent, received, hidden or deleted, or another chat is opened:
\* the chat becomes one of Cs.
ChatIn(Cs) ==
    /\ call.op = "none"
    /\ \E c \in Cs : c # chat /\ chat' = c
    /\ UNCHANGED <<macros, env, chat_metadata, textgenerationwebui_banned_in_macros,
                   nonces, call, threw, out, invoked, passes, substituted,
                   current_chat_id, main_api>>

\* The user selects another API, one of As.
ApiIn(As) ==
    /\ call.op = "none"
    /\ \E a \in As : a # main_api /\ main_api' = a
    /\ UNCHANGED <<macros, env, chat_metadata, textgenerationwebui_banned_in_macros,
                   nonces, call, threw, out, invoked, passes, substituted,
                   current_chat_id, chat>>

Register == RegisterIn(RegKeys, RegValues)
Unregister == UnregisterIn(RegKeys)
NewEnv == NewEnvIn(EnvChoices)
Evaluate == EvaluateIn(Contents)

Next == Register \/ Unregister \/ NewEnv \/ Evaluate \/ Return

Spec == Init /\ [][Next]_vars

-----------------------------------------------------------------------------
(* The registry under every kind of key and value: register and unregister *)
(* with names that are padded, empty, blank, not strings, or hold the      *)
(* braces at the start, at the end, on both sides or inside.               *)

nBar == <<"b", "a", "r">>
nInner == <<"a", "{", "{", "b", "}", "}", "c">>

WideKeys ==
    {Str(nFoo),
     Str(<<" ", "f", "o", "o", " ">>),
     Str(nBar),
     Str(nInner),
     Str(<<"{", "{", "f", "o", "o">>),
     Str(<<"f", "o", "o", "}", "}">>),
     Str(<<"{", "{", "f", "o", "o", "}", "}">>),
     Str(<<" ", "{", "{", "f", "o", "o", " ">>),
     Str(<<>>),
     Str(<<" ", " ">>),
     Num(<<"7">>),
     Undefined}

WideValues == {vB, vD, Num(<<"7">>), Null}

RegisterWide == RegisterIn(WideKeys, WideValues)
UnregisterWide == UnregisterIn(WideKeys)

NextRegistry == RegisterWide \/ UnregisterWide \/ Return

SpecRegistry == Init /\ [][NextRegistry]_vars

\* A key that is no name at all: not a string, or nothing once trimmed.
NoName(key) == key.ty # "string" \/ Trim(key.s) = <<>>

\* The braces around the trimmed key, on either side.
SurroundingBraces(key) ==
    StartsWith(Trim(key.s), LB) \/ EndsWith(Trim(key.s), RB)

\* The braces anywhere in the key.
BracesAnywhere(key) == Includes(key.s, LB) \/ Includes(key.s, RB)

\* The entries of m under another key than k, in their order.
Others(m, k) == SelectSeq(m, LAMBDA entry : entry.key # k)

\* How many entries m holds under k.
Count(m, k) == Cardinality({i \in 1..Len(m) : m[i].key = k})

\* What the registry keeps for a value that is registered.
Stored(value) ==
    IF value.ty \in {"string", "function"} THEN value
    ELSE sanitizeMacroValue(value)

\* C3, as stated: registerMacro throws and leaves the registry unchanged
\* whenever the name is not a string, is empty or blank once trimmed, or
\* holds the braces anywhere in it.
C3_ThrowsOnBracesAnywhere ==
    (call.op = "register" /\ (NoName(call.key) \/ BracesAnywhere(call.key)))
        => (threw /\ macros = call.macros)

\* C3, amended: registerMacro throws and leaves the registry unchanged
\* whenever the name is not a string, is empty or blank once trimmed, or,
\* once trimmed, starts with the opening braces or ends with the closing
\* braces; it accepts every other name, braces inside it or not.
C3_ThrowsOnSurroundingBraces ==
    call.op = "register" =>
        /\ threw <=> (NoName(call.key) \/ SurroundingBraces(call.key))
        /\ threw => macros = call.macros
        /\ ~threw => Has(macros, Trim(call.key.s))

\* A padded name with the opening braces is rejected by a registry that
\* holds entries.
C3_Witness ==
    /\ call.op = "register"
    /\ call.key = Str(<<" ", "{", "{", "f", "o", "o", " ">>)
    /\ threw
    /\ Len(macros) = 2

\* C4, as stated: unregisterMacro throws, leaving the registry unchanged,
\* for a name that is not a string, is empty or blank, or holds the braces
\* where registerMacro rejects them; for any other name it removes the
\* entry under the trimmed name.
C4_SameRulesAsRegister ==
    call.op = "unregister" =>
        IF NoName(call.key) \/ SurroundingBraces(call.key)
        THEN threw /\ macros = call.macros
        ELSE ~threw /\ macros = Others(call.macros, Trim(call.key.s))

\* C4, amended: unregisterMacro throws, leaving the registry unchanged,
\* for a name that is not a string and for one that is empty or blank once
\* trimmed, and for no other name: the braces are not looked for.  For any
\* other name it removes the entry under the trimmed name and leaves the
\* other entries as they were.
C4_ThrowsOnNoName ==
    call.op = "unregister" =>
        IF NoName(call.key)
        THEN threw /\ macros = call.macros
        ELSE ~threw /\ macros = Others(call.macros, Trim(call.key.s))

\* The entry of foo is removed under a padded name, and another stays.
C4_Witness ==
    /\ call.op = "unregister"
    /\ call.key = Str(<<" ", "f", "o", "o", " ">>)
    /\ Has(call.macros, nFoo)
    /\ ~threw
    /\ ~Has(macros, nFoo)
    /\ Len(macros) = 1

\* C5: unregisterMacro with a name (a string that is not empty once
\* trimmed) that the registry does not hold does not throw and leaves
\* every entry, key and value, as it was.
C5_UnregisterAbsent ==
    (/\ call.op = "unregister"
     /\ ~NoName(call.key)
     /\ ~Has(call.macros, Trim(call.key.s)))
        => (~threw /\ macros = call.macros)

\* bar is unregistered from a registry that holds two other names.
C5_Witness ==
    /\ call.op = "unregister"
    /\ call.key = Str(nBar)
    /\ ~Has(call.macros, nBar)
    /\ Len(call.macros) = 2
    /\ ~threw

\* C6: registering a name that the registry holds does not fail; the
\* registry then holds exactly one entry for the trimmed name, with the
\* value of this registration (as registerMacro stores it), and every
\* other entry is where and what it was.
C6_ReRegisterOverwrites ==
    (call.op = "register" /\ call.key.ty = "string"
                          /\ Has(call.macros, Trim(call.key.s)))
        => /\ ~threw
           /\ Count(macros, Trim(call.key.s)) = 1
           /\ Get(macros, Trim(call.key.s)) = Stored(call.value)
           /\ Len(macros) = Len(call.macros)
           /\ \A i \in 1..Len(macros) :
                 call.macros[i].key # Trim(call.key.s) => macros[i] = call.macros[i]

\* foo is registered again, with another value, before another entry.
C6_Witness ==
    /\ call.op = "register"
    /\ Trim(call.key.s) = nFoo
    /\ Len(call.macros) = 2
    /\ call.macros[1] = [key |-> nFoo, value |-> vB]
    /\ call.value = vD
    /\ macros[1] = [key |-> nFoo, value |-> vD]
    /\ macros[2] = call.macros[2]

-----------------------------------------------------------------------------
(* Names that differ in letter case only: foo and Foo, in the registry and *)
(* in the env object of the caller, and texts whose directives are the     *)
(* placeholder of foo in one letter case or another.                       *)

NameKeys == {Str(nFoo), Str(nFooCap)}
NameValues == {vB, vD}

NameEnvs ==
    {EnvOf(<<>>),
     EnvOf(<<[key |-> nFoo, value |-> vA]>>),
     EnvOf(<<[key |-> nFooCap, value |-> vX]>>),
     EnvOf(<<[key |-> nFooCap, value |-> vX], [key |-> nFoo, value |-> vA]>>)}

NameContents ==
    {<<"{", "{", "f", "o", "o", "}", "}">>,
     <<"{", "{", "F", "O", "O", "}", "}", " ", "{", "{", "f", "o", "o", "}", "}">>,
     <<"a", "{", "{", "F", "o", "o", "}", "}">>}

RegisterNames == RegisterIn(NameKeys, NameValues)
UnregisterNames == UnregisterIn(NameKeys)
NewEnvNames == NewEnvIn(NameEnvs)
EvaluateNames == EvaluateIn(NameContents)

NextNames ==
    RegisterNames \/ UnregisterNames \/ NewEnvNames \/ EvaluateNames \/ Return

SpecNames == Init /\ [][NextNames]_vars

\* The text that replaces a placeholder of a macro whose value is v: the
\* escaped value, or the escaped result of calling it.
Inserted(v, esc) ==
    ToStr(Escape(esc, IF v.ty = "function" THEN Invoke(v) ELSE v))

\* The placeholders of n in content, in any letter case, and content with
\* ins in the place of each.
Placeholders(content, n) ==
    LitMatches(content, LowerStr(Mac(n)), <<>>, Text(content).lb, 1)

Replaced(content, n, ins) == ReplaceAllCI(Text(content), LowerStr(Mac(n)), ins).s

\* No other key of the registry m is n in another letter case.
OnlyCase(m, n) == \A k \in Keys(m) : LowerStr(k) = LowerStr(n) => k = n

\* How often the evaluation called the value of n.
Calls(n) == Cardinality({i \in 1..Len(invoked) : invoked[i].key = n})

\* C1: when the env of the caller maps n to a value and n is registered
\* (the only registered name of its spelling), evaluating a text that holds
\* the placeholder of n gives the text with the escaped registered value in
\* the place of each placeholder of n, never a value of the caller.
C1_RegisteredWinsOverEnv ==
    \A n \in {nFoo, nFooCap} :
        (/\ call.op = "evaluate"
         /\ Has(call.env.props, n)
         /\ Has(call.macros, n)
         /\ OnlyCase(call.macros, n)
         /\ Includes(call.content, Mac(n)))
            => out = Replaced(call.content, n,
                              Inserted(Get(call.macros, n), call.esc))

\* C2: when n is registered with v (the only registered name of its
\* spelling), evaluating a text that holds the placeholder of n gives the
\* text with v, or the result of calling v, in the place of every
\* placeholder of n in any letter case, and calls v once per placeholder.
C2_RegisteredReplacesEveryCase ==
    \A n \in {nFoo, nFooCap} :
        (/\ call.op = "evaluate"
         /\ call.env.has
         /\ Has(call.macros, n)
         /\ OnlyCase(call.macros, n)
         /\ Includes(call.content, Mac(n)))
            => /\ out = Replaced(call.content, n,
                                 Inserted(Get(call.macros, n), call.esc))
               /\ Get(call.macros, n).ty = "function"
                     => Calls(n) = Len(Placeholders(call.content, n))

-----------------------------------------------------------------------------
(* Evaluation: escaping, the short circuit and the dice.                   *)

\* What the evaluation in progress gives for another text or another
\* escape function, everything else being the same.
SameCall(content, esc) ==
    evaluateMacros(content, call.env, esc, call.macros, call.meta, call.rnd,
                   call.nonces + 1)

\* The texts that are one directive for which a value is inserted whatever
\* the env and the registry hold.
InsertingContents ==
    (ValueContents \ {Mac(nFoo), Mac(kUser)})
        \cup (DiceContents \ {<<"{", "{", "r", "o", "l", "l", ":", "n", "o", "t", "a", "f", "o", "r", "m", "u", "l", "a", "}", "}">>})

\* The call in progress evaluates one directive, and a value is inserted
\* for it.
InsertsValue ==
    /\ call.op = "evaluate"
    /\ call.env.has
    /\ \/ call.content \in InsertingContents
       \/ \E n \in {nFoo, kUser} :
             /\ call.content = Mac(n)
             /\ Has(call.env.props, n) \/ Has(call.macros, n)

\* C7: what is inserted for a directive is the escape function applied to
\* its value: the text that one directive gives under an escape function
\* is that function applied to the text it gives under the identity.
C7_EveryValueEscaped ==
    InsertsValue =>
        out = ToStr(Escape(call.esc, Str(SameCall(call.content, "id").out)))

\* C9: a roll directive with a formula that the dice collaborator rejects
\* is replaced by the empty text, and the evaluation does not throw.
C9_InvalidRollGivesEmpty ==
    (/\ call.op = "evaluate"
     /\ call.env.has
     /\ call.content = <<"{", "{", "r", "o", "l", "l", ":", "n", "o", "t", "a", "f", "o", "r", "m", "u", "l", "a", "}", "}">>)
        => (~threw /\ out = <<>>)

\* The text evaluateMacros works on after the legacy tags, for the call in
\* progress.
AfterLegacy == legacyReplace(Text(call.content), call.env, call.esc)

\* C8: when the text holds no opening braces once the legacy tags are
\* replaced, evaluateMacros returns that text and runs no later pass: the
\* registry is not merged into env, no nonce is made, and the chat
\* metadata and the banned words stay as they were.
C8_ShortCircuit ==
    (/\ call.op = "evaluate"
     /\ call.env.has
     /\ call.content # <<>>
     /\ ~Includes(AfterLegacy.s, LB))
        => /\ ~threw
           /\ out = AfterLegacy.s
           /\ passes = <<"legacy">>
           /\ substituted = <<>>
           /\ env = call.env
           /\ nonces = call.nonces
           /\ chat_metadata = call.meta
           /\ textgenerationwebui_banned_in_macros = call.banned

\* A text with a legacy tag only is evaluated while a macro is registered
\* that the env object does not hold.
C8_Witness ==
    /\ call.op = "evaluate"
    /\ call.content = <<"<", "U", "S", "E", "R", ">", "!">>
    /\ out = <<"A", "l", "!">>
    /\ Has(macros, nFoo)
    /\ ~Has(env.props, nFoo)

\* The roll directives with a formula, and the least and the greatest
\* total of each.
Rolls ==
    {[content |-> <<"{", "{", "r", "o", "l", "l", ":", "4", "}", "}">>, lo |-> 1, hi |-> 4],
     [content |-> <<"{", "{", "r", "o", "l", "l", ":", "1", "d", "4", "}", "}">>, lo |-> 1, hi |-> 4],
     [content |-> <<"{", "{", "r", "o", "l", "l", ":", "2", "0", "}", "}">>, lo |-> 1, hi |-> 20],
     [content |-> <<"{", "{", "r", "o", "l", "l", ":", "2", "d", "6", "}", "}">>, lo |-> 2, hi |-> 12],
     [content |-> <<"{", "{", "r", "o", "l", "l", " ", "d", "4", "+", "2", "}", "}">>, lo |-> 3, hi |-> 6]}

\* C10: a roll directive with a formula is replaced by the decimal text of
\* a total within the range of the formula (with or without the escape
\* function applied to it), and a directive whose argument is the digits N
\* gives what the formula 1dN gives for the same dice.
C10_RollTotals ==
    (call.op = "evaluate" /\ call.env.has) =>
        /\ \A roll \in Rolls :
              call.content = roll.content =>
                 \E total \in roll.lo..roll.hi :
                    out \in {Dec(total), ToStr(Escape(call.esc, Str(Dec(total))))}
        /\ call.content = <<"{", "{", "r", "o", "l", "l", ":", "4", "}", "}">> =>
              out = SameCall(<<"{", "{", "r", "o", "l", "l", ":", "1", "d", "4", "}", "}">>, call.esc).out

\* Two dice of six sides both fall on six.
C10_Witness ==
    /\ call.op = "evaluate"
    /\ call.content = <<"{", "{", "r", "o", "l", "l", ":", "2", "d", "6", "}", "}">>
    /\ out = <<"1", "2">>

-----------------------------------------------------------------------------
(* Lists: texts with random and pick directives, evaluated in a chat whose *)
(* id and main chat change between the evaluations.                        *)

vLong == Str(<<"B", "B">>)
cChat2 == Str(<<"c", "h", "a", "t", "-", "2">>)
cMain == Str(<<"m", "a", "i", "n">>)

cRandomTwice == <<"{", "{", "r", "a", "n", "d", "o", "m", ":", "a", ",", "b", "}", "}", "{", "{", "r", "a", "n", "d", "o", "m", ":", "a", ",", "b", "}", "}">>
cRandomThree == <<"{", "{", "r", "a", "n", "d", "o", "m", ":", ":", "x", ":", ":", "y", ":", ":", "z", "}", "}">>
cRandomCommas == <<"{", "{", "r", "a", "n", "d", "o", "m", ":", " ", "a", " ", ",", " ", "b", "\\", ",", "c", " ", "}", "}">>
cPick == <<"{", "{", "p", "i", "c", "k", ":", ":", "x", ":", ":", "y", ":", ":", "z", "}", "}">>
cRandomPick == <<"{", "{", "r", "a", "n", "d", "o", "m", ":", "a", ",", "b", "b", "}", "}", "{", "{", "p", "i", "c", "k", ":", ":", "x", ":", ":", "y", ":", ":", "z", "}", "}">>
cFooPick == <<"{", "{", "f", "o", "o", "}", "}", "{", "{", "p", "i", "c", "k", ":", ":", "x", ":", ":", "y", ":", ":", "z", "}", "}">>

ListContents ==
    {cRandomTwice, cRandomThree, cRandomCommas, cPick, cRandomPick, cFooPick}

ListEnvs == {EnvOf(<<>>), EnvOf(<<[key |-> nFoo, value |-> vA]>>)}

RegisterLists == RegisterIn({Str(nFoo)}, {vLong})
NewEnvLists == NewEnvIn(ListEnvs)
EvaluateLists == EvaluateIn(ListContents)
RenameChat == RenameChatIn({Undefined, cChat1, cChat2})
Branch == BranchIn({Undefined, cMain})

NextLists ==
    RegisterLists \/ NewEnvLists \/ EvaluateLists \/ RenameChat \/ Branch \/ Return

SpecLists == Init /\ [][NextLists]_vars

\* What the evaluation in progress gives for another text and other
\* numbers drawn, everything else being the same.
CallRolling(content, rnd) ==
    evaluateMacros(content, call.env, call.esc, call.macros, call.meta, rnd,
                   call.nonces + 1)

\* The texts made of random directives, and the list of each directive.
RandomTexts ==
    {[content |-> cRandomTwice,
      lists |-> << << <<"a">>, <<"b">> >>, << <<"a">>, <<"b">> >> >>],
     [content |-> cRandomThree,
      lists |-> << << <<"x">>, <<"y">>, <<"z">> >> >>],
     [content |-> cRandomCommas,
      lists |-> << << <<"a">>, <<"b", ",", "c">> >> >>]}

\* The ways to take one item of each list, as the index of the item.
Choices(lists) ==
    {idx \in [1..Len(lists) -> 1..3] :
        \A j \in 1..Len(lists) : idx[j] <= Len(lists[j])}

\* The items taken, each one as the escape function esc leaves it, one
\* after the other.
RECURSIVE Joined(_, _, _)
Joined(lists, idx, esc) ==
    IF lists = <<>> THEN <<>>
    ELSE ToStr(Escape(esc, Str(Head(lists)[Head(idx)])))
         \o Joined(Tail(lists), Tail(idx), esc)

\* The texts that taking the items idx can give: the items as they are, or
\* with the escape function of the call applied to each.
Taken(lists, idx) == {Joined(lists, idx, "id"), Joined(lists, idx, call.esc)}

\* C11: every random directive is replaced by one item of its list; the
\* directives of a text draw one by one, so that every way to take one
\* item per directive is what some numbers drawn give, and every item of
\* a list is a possible outcome (looked at from the call that draws zeros,
\* for every state a call is made in).
C11_RandomTakesOneItem ==
    \A t \in RandomTexts :
        (call.op = "evaluate" /\ call.env.has /\ call.content = t.content) =>
            /\ \E idx \in Choices(t.lists) : out \in Taken(t.lists, idx)
            /\ (\A j \in 1..Len(call.rnd) : call.rnd[j] = 0) =>
                  \A idx \in Choices(t.lists) :
                     \E rnd \in Oracles(t.content) :
                        CallRolling(t.content, rnd).out \in Taken(t.lists, idx)

\* Two directives with the same list give two different items.
C11_Witness ==
    /\ call.op = "evaluate"
    /\ call.content = cRandomTwice
    /\ out \in {<<"b", "a">>, <<"[", "b", "]", "[", "a", "]">>}

\* The texts that end with a pick directive, and the item that a text
\* these evaluate to ends with (with or without the escape function
\* applied to it).
PickTexts == {cPick, cRandomPick, cFooPick}

PickedItem(text) ==
    IF text[Len(text)] = "]" THEN text[Len(text) - 1] ELSE text[Len(text)]

\* The registries and the numbers drawn that an evaluation of the lists
\* can meet.
ListRegistries == {<<>>, <<[key |-> nFoo, value |-> vLong]>>}

\* C12: the item a pick directive gives is settled by the chat and the raw
\* text: evaluating the raw text of the call in the same chat, with the
\* same chat metadata, under any env, any registry and any numbers drawn
\* by its random directives, picks the same item.
C12_PickDependsOnRawTextOnly ==
    (call.op = "evaluate" /\ call.env.has /\ call.content \in PickTexts) =>
        \A e \in ListEnvs, m \in ListRegistries, rnd \in Oracles(call.content) :
            PickedItem(evaluateMacros(call.content, e, call.esc, m, call.meta,
                                      rnd, call.nonces + 1).out)
                = PickedItem(out)


-----------------------------------------------------------------------------
(* The chat-id hash.                                                       *)

\* The id getChatIdHash hashes in the state the call was made in.
LogicalId == IF call.meta.main_chat.ty \in {"undefined", "null"}
             THEN call.chat_id ELSE call.meta.main_chat

\* The evaluation in progress ran pickReplace, and so getChatIdHash.
AskedHash == call.op = "evaluate" /\ ~threw /\ passes = AllPasses

\* C13: the chat-id hash is computed once per chat and then cached.  A call
\* that finds no hash in the chat metadata stores the hash of the main-chat
\* id if there is one and of the current chat id otherwise; a call that finds
\* a hash stored, the hash 0 included, leaves the metadata as it found it,
\* whatever the current chat id and the main-chat id have become.
C13_HashComputedOnce ==
    AskedHash =>
        IF call.meta.has_hash
        THEN chat_metadata = call.meta
        ELSE chat_metadata = [call.meta EXCEPT !.has_hash = TRUE,
                                               !.chat_id_hash = getStringHash(LogicalId)]

-----------------------------------------------------------------------------
(* Passes: texts with comments and with the names foo and bar, evaluated   *)
(* with a registry whose values hold directives of their own.              *)

vFooRef == Str(Mac(nFoo))
vBarRef == Str(Mac(nBar))
vRoll == Str(<<"{", "{", "r", "o", "l", "l", ":", "2", "d", "6", "}", "}">>)
vNewline == Str(<<"{", "{", "n", "e", "w", "l", "i", "n", "e", "}", "}">>)
vTime == Str(<<"{", "{", "t", "i", "m", "e", "}", "}">>)
vRandom == Str(<<"{", "{", "r", "a", "n", "d", "o", "m", ":", ":", "a", ":", ":", "b", "}", "}">>)
vPick == Str(<<"{", "{", "p", "i", "c", "k", ":", ":", "a", ":", ":", "b", "}", "}">>)

cSpan == <<"b", "e", "f", "o", "r", "e", "{", "{", "/", "/", "h", "i", "d", "d", "e", "n", "\n", "t", "e", "x", "t", "}", "}", "a", "f", "t", "e", "r">>
cSpans == <<"a", "{", "{", "/", "/", "x", "}", "}", "b", "{", "{", "/", "/", "y", "}", "}", "c", "}", "}">>
cOpen == <<"a", "{", "{", "/", "/", "x">>
cTag == <<"<", "U", "S", "E", "R", ">", "!">>
cFoo == Mac(nFoo)
cBar == Mac(nBar)
cFooBar == Mac(nFoo) \o Mac(nBar)

PassContents == {cSpan, cSpans, cOpen, cTag, cFoo, cBar, cFooBar}
FooValues == {vA, vFooRef, vBarRef}

RegisterFoo == RegisterIn({Str(nFoo)}, FooValues)
RegisterBar == RegisterIn({Str(nBar)}, {vFooRef})
UnregisterPasses == UnregisterIn({Str(nFoo), Str(nBar)})
NewEnvPasses == NewEnvIn({EnvOf(<<>>)})
EvaluatePasses == EvaluateIn(PassContents)

NextPasses ==
    RegisterFoo \/ RegisterBar \/ UnregisterPasses \/ NewEnvPasses
    \/ EvaluatePasses \/ Return

SpecPasses == Init /\ [][NextPasses]_vars

\* The texts with comments and what is left of each without them.
CommentTexts ==
    {[content |-> cSpan, left |-> <<"b", "e", "f", "o", "r", "e", "a", "f", "t", "e", "r">>],
     [content |-> cSpans, left |-> <<"a", "b", "c", "}", "}">>],
     [content |-> cOpen, left |-> cOpen]}

\* C14: every span from the comment opener to the next closing braces, line
\* breaks included, is deleted and nothing is put in its place; an opener
\* that no closing braces follow stays.
C14_CommentsDeleted ==
    \A t \in CommentTexts :
        (call.op = "evaluate" /\ call.env.has /\ call.content = t.content) =>
            ~threw /\ out = t.left

C14_Witness ==
    call.op = "evaluate" /\ call.content = cSpan /\ out = <<"b", "e", "f", "o", "r", "e", "a", "f", "t", "e", "r">>

-----------------------------------------------------------------------------
(* Values: the name foo registered with, and provided by the caller as, a  *)
(* value of every kind.                                                    *)

vDate == Date(<<"2024-01-01T00:00:00.000Z">>, "valid")
vInvalidDate == Date(<<>>, "invalid")
vObj == Obj(<<"{", "\"", "a", "\"", ":", "1", "}">>, "plain")
vCyclic == Obj(<<>>, "cyclic")
vNoJson == Obj(<<>>, "nojson")
vNum == Num(<<"4", "2">>)

Kinds == {vA, Undefined, Null, Promise, vDate, vInvalidDate, vObj, vCyclic, vNoJson,
          vNum, vD, FnOf("function"), FnOf("promise"), FnOf("undefined")}

cFooTwice == <<"x">> \o Mac(nFoo) \o <<"y">> \o Mac(nFoo)

RegisterValues == RegisterIn({Str(nFoo)}, Kinds)
NewEnvValues == NewEnvIn({EnvOf(<<>>)} \cup {EnvOf(<<[key |-> nFoo, value |-> v]>>) : v \in Kinds})
EvaluateValues == EvaluateIn({cFoo, cFooTwice})

NextValues == RegisterValues \/ NewEnvValues \/ EvaluateValues \/ Return

SpecValues == Init /\ [][NextValues]_vars

\* What sanitizeMacroValue is to return for the value v.
Sanitized(v) ==
    CASE v.ty = "string" -> v.s
      [] v.ty \in {"null", "undefined", "promise", "function"} -> <<>>
      [] v.ty \in {"date", "object"} -> v.s
      [] OTHER -> ToStr(v)

\* What the env pass hands to sanitizeMacroValue for foo.
FooParam ==
    LET param == Get(env.props, nFoo)
    IN IF param.ty = "function" THEN Invoke(param) ELSE param

\* C15: sanitizeMacroValue always returns a string: a string for itself, the
\* empty string for null, undefined, a Promise and a function, its ISO text
\* for a date, its JSON text for any other object and its string coercion for
\* anything else.  So a registration keeps that string for a value that is
\* neither a string nor a function, and an evaluation puts that string, once
\* escaped, where foo stands.
C15_SanitizeGivesString ==
    /\ (call.op = "register" /\ call.value.ty \notin {"string", "function"}) =>
          ~threw /\ Get(macros, nFoo) = Str(Sanitized(call.value))
    /\ (call.op = "evaluate" /\ call.content = cFoo /\ Has(env.props, nFoo)) =>
          ~threw /\ out = ToStr(Escape(call.esc, Str(Sanitized(FooParam))))

\* C16: evaluateMacros never throws, whatever the text and the env, an env
\* without user, char and group and no env at all included, and the text it
\* returns does not hold the word undefined for an entry the env lacks.
C16_NeverThrows ==
    call.op = "evaluate" =>
        ~threw /\ ~Includes(out, ToStr(Undefined))

-----------------------------------------------------------------------------
(* The nonce.                                                              *)

\* The calls of Dynamic values that the env pass of the evaluation in
\* progress made: those after the calls of the legacy tags.
EnvCalls == SubSeq(invoked, Len(legacyInvoked(call.env)) + 1, Len(invoked))

\* C17: an evaluation that goes past the short circuit makes exactly one
\* nonce; every Dynamic value its env pass calls is given that nonce, which
\* is none of the nonces made for the calls before it.
C17_OneNoncePerCall ==
    (call.op = "evaluate" /\ Len(passes) > 1) =>
        /\ nonces = call.nonces + 1
        /\ \A j \in 1..Len(EnvCalls) :
              EnvCalls[j].nonce = nonces /\ EnvCalls[j].nonce \notin 0..call.nonces

\* The second evaluation that makes a nonce calls a Dynamic value in its env
\* pass.
C17_Witness ==
    call.op = "evaluate" /\ Len(passes) > 1 /\ call.nonces = 1 /\ EnvCalls # <<>>

-----------------------------------------------------------------------------
(* Nested: foo registered with values that hold a directive of a pass that *)
(* runs before the env pass (roll, newline) or after it (time, random,     *)
(* pick).                                                                  *)

EarlierValues == {vRoll, vNewline}
LaterValues == {vTime, vRandom, vPick}

cFooInText == <<"a", " ">> \o Mac(nFoo) \o <<" ">> \o Mac(nFoo)

RegisterNested == RegisterIn({Str(nFoo)}, EarlierValues \cup LaterValues)
NewEnvNested == NewEnvIn({EnvOf(<<>>)})
EvaluateNested == EvaluateIn({cFoo, cFooInText})

NextNested == RegisterNested \/ NewEnvNested \/ EvaluateNested \/ Return

SpecNested == Init /\ [][NextNested]_vars

\* The evaluation in progress replaced the text foo between braces by the
\* value v.
FooGave(v) ==
    /\ call.op = "evaluate" /\ ~threw
    /\ call.content = cFoo
    /\ Get(env.props, nFoo) = v

\* What the evaluation in progress gives for the text of v written in the
\* place of the call's text.
Written(v) == SameCall(v.s, call.esc).out

\* C18: the passes run once each in a fixed order.  A value the env pass
\* inserts keeps the directives of the passes before it as they are written
\* (roll, newline), and has those of the passes after it replaced as they
\* are when the text holds them from the start (time, random, pick).
C18_InsertedValueSeenByLaterPassesOnly ==
    /\ \A v \in EarlierValues :
          FooGave(v) => out = ToStr(Escape(call.esc, v))
    /\ \A v \in {vTime, vRandom} :
          FooGave(v) => /\ ~Includes(out, LB)
                        /\ out = ToStr(Escape(call.esc, Str(Written(v))))
    /\ FooGave(vPick) =>
          out \in {ToStr(Escape(call.esc, Str(<<x>>))) : x \in {"a", "b"}}

C18_Witness ==
    /\ FooGave(vRandom)
    /\ out = <<"b">>

-----------------------------------------------------------------------------
(* One run through the passes.                                             *)

\* The env objects whose values name themselves and each other.
SelfEnv == <<[key |-> nFoo, value |-> vFooRef]>>
MutualEnv == <<[key |-> nFoo, value |-> vBarRef], [key |-> nBar, value |-> vFooRef]>>

\* C19: an evaluation is over after one run through the passes, whatever
\* the registry and the env hold.  The env pass takes each key once, in
\* order, and replaces the placeholders that stand in the text when the key's
\* turn comes; a placeholder that a value brings for its own key or for a key
\* whose turn is over stays in the text that is returned.
C19_OneRunNoLoop ==
    (call.op = "evaluate" /\ ~threw /\ Len(passes) > 1) =>
        /\ passes = AllPasses
        /\ Len(substituted) = Len(env.props)
        /\ \A i \in 1..Len(substituted) :
              /\ substituted[i].key = env.props[i].key
              /\ substituted[i].n =
                    Len(Placeholders(substituted[i].before, substituted[i].key))
        /\ (env.props = SelfEnv /\ call.content = cFoo) =>
              out = ToStr(Escape(call.esc, vFooRef))
        /\ (env.props = MutualEnv /\ call.esc = "id") =>
              out = CASE call.content = cFoo -> cFoo
                      [] call.content = cBar -> cFoo
                      [] call.content = cFooBar -> cFoo \o cFoo
                      [] OTHER -> out

C19_Witness ==
    /\ call.op = "evaluate" /\ ~threw
    /\ env.props = MutualEnv
    /\ call.content = cBar
    /\ out = cFoo

-----------------------------------------------------------------------------
(* The env object of the caller.                                           *)

\* The evaluation in progress went past the short circuit.
Populated == call.op = "evaluate" /\ Len(passes) > 1

\* The evaluation in progress is of the text foo between braces while foo is
\* not registered.
FooUnregistered ==
    call.op = "evaluate" /\ ~threw /\ call.content = cFoo /\ ~Has(call.macros, nFoo)

\* What the env pass of the evaluation in progress put where foo stood in the
\* text of the call; nothing when it replaced no foo.
FooSubstituted ==
    {substituted[i].ins : i \in {j \in 1..Len(substituted) :
                                   substituted[j].key = nFoo /\ substituted[j].n > 0}}

\* C20, as stated: the env of an evaluation is made for the call and dropped
\* after it.  An evaluation adds nothing to the env object of the caller, and
\* once foo is unregistered an evaluation leaves its placeholder, whether the
\* caller passes a new env object or the one of an earlier evaluation.
C20_EnvFreshPerCall ==
    /\ Populated => env = call.env
    /\ FooUnregistered => FooSubstituted = {} /\ out = cFoo

\* C20, amended: an evaluation that goes past the short circuit writes the
\* registry into the env object of the caller, over the entries of the same
\* names, and the entries stay there.  Once foo is unregistered an
\* evaluation leaves its placeholder if the caller passes a new env object,
\* and puts the value an earlier evaluation wrote if the caller passes the
\* env object of that evaluation.
C20_RegistryWrittenIntoEnv ==
    /\ Populated =>
          /\ \A i \in 1..Len(call.macros) :
                Get(env.props, call.macros[i].key) = call.macros[i].value
          /\ \A i \in 1..Len(call.env.props) :
                ~Has(call.macros, call.env.props[i].key) =>
                    Get(env.props, call.env.props[i].key) = call.env.props[i].value
          /\ Keys(env.props) = Keys(call.env.props) \cup Keys(call.macros)
    /\ (call.op = "evaluate" /\ Len(passes) <= 1) => env = call.env
    /\ FooUnregistered =>
          IF Has(call.env.props, nFoo)
          THEN FooSubstituted = {ToStr(Escape(call.esc, Get(call.env.props, nFoo)))}
          ELSE FooSubstituted = {} /\ out = cFoo

\* foo is unregistered and the caller passes the env object of an evaluation
\* made while foo was registered.
C20_Witness ==
    /\ FooUnregistered
    /\ Get(call.env.props, nFoo) = vA
    /\ out = vA.s

-----------------------------------------------------------------------------
(* The legacy tags.                                                        *)

cUserTag == <<"<", "U", "S", "E", "R", ">", "!">>
cBotTag == <<"a", "<", "b", "o", "t", ">", "{", "b", "}">>

\* C21: the legacy tags are replaced, in any letter case and before the
\* short circuit, by the escaped value of their env entry (the entry, or what
\* its call returns when it is a function), and what is inserted is exactly
\* that escaped value, also when it holds a dollar sign.
C21_LegacyTagsGetEscapedValue ==
    (call.op = "evaluate" /\ call.env.has) =>
        /\ call.content = cUserTag =>
              out = legacyArg(call.env, kUser, call.esc) \o <<"!">>
        /\ call.content = cBotTag =>
              out = <<"a">> \o legacyArg(call.env, kChar, call.esc) \o <<"{", "b", "}">>

-----------------------------------------------------------------------------
(* Chats: texts with the directives that read the chat and with banned     *)
(* words, evaluated while the chat and the API change.                     *)

Msg(is_user, is_system, send_date, swipes, swipe_id) ==
    [is_user |-> is_user, is_system |-> is_system, mes |-> <<"m">>,
     send_date |-> send_date, swipes |-> swipes, swipe_id |-> swipe_id]

mUser5 == Msg(TRUE, FALSE, 5, -1, -1)
mUser9 == Msg(TRUE, FALSE, 9, -1, -1)
mUserNoDate == Msg(TRUE, FALSE, 0, -1, -1)
mBot7 == Msg(FALSE, FALSE, 7, -1, -1)
mBotSwiped == Msg(FALSE, FALSE, 7, 2, 1)
mBotSwiping == Msg(FALSE, FALSE, 7, 2, 2)
mSystem8 == Msg(FALSE, TRUE, 8, -1, -1)

Chats ==
    {<<>>,
     chat0,
     <<mUser5, mBotSwiped>>,
     <<mUser5, mBotSwiping>>,
     <<mUser5, mUser9, mSystem8>>,
     <<mUser5, mSystem8>>,
     <<mUserNoDate, mBot7>>,
     <<mBot7>>}

Apis == {"textgenerationwebui", "openai"}

cIdle == <<"{", "{", "i", "d", "l", "e", "_", "d", "u", "r", "a", "t", "i", "o", "n", "}", "}">>
cLastMessageId == <<"{", "{", "l", "a", "s", "t", "M", "e", "s", "s", "a", "g", "e", "I", "d", "}", "}">>
cLastSwipeId == <<"{", "{", "l", "a", "s", "t", "S", "w", "i", "p", "e", "I", "d", "}", "}">>
cCurrentSwipeId == <<"{", "{", "c", "u", "r", "r", "e", "n", "t", "S", "w", "i", "p", "e", "I", "d", "}", "}">>
cBan == <<"x", "{", "{", "b", "a", "n", "n", "e", "d", " ", "\"", "w", "\"", "}", "}", "y">>
cBans == <<"{", "{", "b", "a", "n", "n", "e", "d", " ", "\"", "a", "\"", "}", "}", " ", "k", " ", "{", "{", "b", "a", "n", "n", "e", "d", " ", "\"", "b", "\"", "}", "}">>
cUser == Mac(kUser)

ChatContents ==
    {cIdle, cLastMessageId, cLastSwipeId, cCurrentSwipeId, cBan, cBans, cUser, cPick,
     cUserTag}

NewEnvChats == NewEnvIn({EnvOf(<<[key |-> kUser, value |-> Str(<<"A", "l">>)]>>)})
EvaluateChats == EvaluateIn(ChatContents)
ChatChanges == ChatIn(Chats)
ApiChanges == ApiIn(Apis)

NextChats == NewEnvChats \/ EvaluateChats \/ ChatChanges \/ ApiChanges \/ Return

SpecChats == Init /\ [][NextChats]_vars

\* The greatest of a set of positions; 0 for the empty set.
Last(S) == IF S = {} THEN 0 ELSE CHOOSE i \in S : \A j \in S : j <= i

\* The positions of the messages of c that are not system messages, and of
\* those among them that the user sent.
Spoken(c) == {i \in 1..Len(c) : ~c[i].is_system}
FromUser(c) == {i \in Spoken(c) : c[i].is_user}

\* What the idle-duration macro gives when the message at i is the one it
\* measures from; i is 0 when there is no such message.
IdleSince(c, i) ==
    IF i > 0 /\ c[i].send_date # 0
    THEN <<"time since ">> \o Dec(c[i].send_date)
    ELSE <<"j", "u", "s", "t", " ", "n", "o", "w">>

\* The evaluation in progress is of the idle-duration macro.
Idle == call.op = "evaluate" /\ call.env.has /\ call.content = cIdle

\* C22, as stated: the idle duration is measured from the latest message of
\* the user that is not a system message, also when that message is the last
\* message of the chat that is not a system message; it is 'just now' without
\* such a message or without its send date.
C22_IdleFromLatestUserMessage ==
    Idle => out = IdleSince(chat, Last(FromUser(chat)))

\* C22, amended: the scan passes over the last message of the chat that is
\* not a system message, whoever sent it, and the idle duration is measured
\* from the latest message of the user before that one.
C22_IdleFromUserMessageBeforeLast ==
    Idle => out = IdleSince(chat, Last({i \in FromUser(chat) : i < Last(Spoken(chat))}))

\* The chat ends with a message of the user, and the duration is measured
\* from the one before.
C22_Witness ==
    /\ Idle
    /\ chat = <<mUser5, mUser9, mSystem8>>
    /\ out = <<"time since ", "5">>

\* C23: the index macros give the empty text when there is nothing to tell.
\* With an empty chat, or a last message without swipe data, lastMessageId,
\* lastSwipeId and currentSwipeId each give the empty text; otherwise
\* currentSwipeId is the index of the selected swipe plus one and lastSwipeId
\* is the number of swipes.
C23_IndexMacrosEmptyWithoutData ==
    (call.op = "evaluate" /\ call.env.has) =>
        LET E(t) == ToStr(Escape(call.esc, Str(t)))
            last == IF chat = <<>> THEN mBot7 ELSE chat[Len(chat)]
        IN /\ (call.content = cLastMessageId /\ chat = <<>>) => out = E(<<>>)
           /\ call.content = cLastSwipeId =>
                 out = E(IF last.swipes < 0 THEN <<>> ELSE Dec(last.swipes))
           /\ call.content = cCurrentSwipeId =>
                 out = E(IF last.swipe_id < 0 THEN <<>> ELSE Dec(last.swipe_id + 1))

\* The evaluation in progress is of the text with one banned-word directive.
Banning == call.op = "evaluate" /\ call.env.has /\ call.content = cBan

\* C24: the banned-word pass takes the directive out of the text whatever
\* the API is; it appends the word of the directive to the banned words when
\* the API is textgenerationwebui and leaves the banned words as they are
\* with any other API.
C24_BannedWordsOnlyForTextgen ==
    Banning =>
        /\ out = <<"x", "y">>
        /\ textgenerationwebui_banned_in_macros =
              IF main_api = "textgenerationwebui"
              THEN call.banned \o << <<"w">> >>
              ELSE call.banned

C24_Witness ==
    /\ Banning
    /\ main_api = "openai"
    /\ out = <<"x", "y">>
    /\ textgenerationwebui_banned_in_macros = <<>>

\* C28: the banned-word pass deletes the directives and nothing else.  Of a
\* line with two directives the text between them is kept, and each
\* directive adds its own word to the banned words.
C28_EachDirectiveBansItsWord ==
    (call.op = "evaluate" /\ call.env.has /\ call.content = cBans) =>
        /\ out = <<" ", "k", " ">>
        /\ main_api = "textgenerationwebui" =>
              textgenerationwebui_banned_in_macros
                 = call.banned \o << <<"a">>, <<"b">> >>

-----------------------------------------------------------------------------
(* What an evaluation leaves of the chat and of its metadata.              *)

\* The text of the evaluation in progress holds a pick directive.
HasPick == Includes(LowerStr(call.content), pPick)

\* C29, as stated: an evaluation leaves the messages of the chat as they
\* are, and it leaves the chat metadata as they are unless its text holds a
\* pick directive.
C29_MetadataWrittenForPickOnly ==
    call.op = "evaluate" =>
        /\ chat = call.chat
        /\ ~HasPick => chat_metadata = call.meta

\* C29, amended: an evaluation leaves the messages of the chat as they are.
\* It leaves the chat metadata as they are when it stops at the short
\* circuit; when it goes past it the metadata hold a chat id hash afterwards,
\* with or without a pick directive in the text, and metadata that held none
\* hold the hash of the main-chat id or else of the current chat id.
C29_MetadataWrittenPastShortCircuit ==
    call.op = "evaluate" =>
        /\ chat = call.chat
        /\ passes # AllPasses => chat_metadata = call.meta
        /\ passes = AllPasses =>
              /\ chat_metadata.has_hash
              /\ chat_metadata.main_chat = call.meta.main_chat
              /\ ~call.meta.has_hash =>
                    chat_metadata.chat_id_hash = getStringHash(LogicalId)

\* A text with the user macro only is evaluated in a chat whose metadata
\* hold no hash.
C29_Witness ==
    /\ call.op = "evaluate"
    /\ call.content = cUser
    /\ ~call.meta.has_hash
    /\ chat_metadata.has_hash

-----------------------------------------------------------------------------
(* Parsing: texts that are one random or one pick directive, with the list *)
(* written in every way.                                                   *)

cRandomSpaced == <<"{", "{", "r", "a", "n", "d", "o", "m", ":", ":", " ", "p", " ", ":", ":", " ", "p", " ", "}", "}">>
cPickSpaced == <<"{", "{", "p", "i", "c", "k", ":", ":", " ", "p", " ", ":", ":", " ", "p", " ", "}", "}">>
cRandomEscaped == <<"{", "{", "r", "a", "n", "d", "o", "m", ":", " ", "b", "\\", ",", "c", " ", "}", "}">>
cPickEscaped == <<"{", "{", "p", "i", "c", "k", ":", " ", "b", "\\", ",", "c", " ", "}", "}">>
cRandomMixed == <<"{", "{", "r", "a", "n", "d", "o", "m", ":", ":", "a", ",", "b", "}", "}">>
cPickMixed == <<"{", "{", "p", "i", "c", "k", ":", ":", "a", ",", "b", "}", "}">>
cRandomColons == <<"{", "{", "r", "a", "n", "d", "o", "m", ":", "a", ":", ":", "b", "}", "}">>
cPickColons == <<"{", "{", "p", "i", "c", "k", ":", "a", ":", ":", "b", "}", "}">>
cRandomGap == <<"{", "{", "r", "a", "n", "d", "o", "m", ":", "a", ",", ",", "a", "}", "}">>
cPickGap == <<"{", "{", "p", "i", "c", "k", ":", "a", ",", ",", "a", "}", "}">>

\* The directives, with the items of the list of each.
ParseTexts ==
    {[random |-> cRandomSpaced, pick |-> cPickSpaced, items |-> {<<" ", "p", " ">>}],
     [random |-> cRandomEscaped, pick |-> cPickEscaped, items |-> {<<"b", ",", "c">>}],
     [random |-> cRandomMixed, pick |-> cPickMixed, items |-> {<<"a">>, <<"b">>}],
     [random |-> cRandomColons, pick |-> cPickColons, items |-> {<<"a">>, <<"b">>}],
     [random |-> cRandomGap, pick |-> cPickGap, items |-> {<<"a">>, <<>>}]}

ParseContents == {t.random : t \in ParseTexts} \cup {t.pick : t \in ParseTexts}

NewEnvParse == NewEnvIn({EnvOf(<<>>)})
EvaluateParse == EvaluateIn(ParseContents)
RenameChatParse == RenameChatIn({cChat1, cChat2})

NextParse == NewEnvParse \/ EvaluateParse \/ RenameChatParse \/ Return

SpecParse == Init /\ [][NextParse]_vars

\* C25: random and pick read their list in the same way.  A list that holds
\* a double colon is split at the double colons and its items are kept as
\* they are written; any other list is split at the commas that no backslash
\* precedes, its items are trimmed and an escaped comma becomes a comma.  The
\* list is never empty: what is inserted is one of its items, by no means the
\* placeholder for an empty list.
C25_ListsParsedAlike ==
    \A t \in ParseTexts :
        (call.op = "evaluate" /\ call.env.has /\ call.content \in {t.random, t.pick}) =>
            /\ out \in t.items
            /\ out # ToStr(EscapeAsValue(call.esc))

C25_Witness ==
    /\ call.op = "evaluate"
    /\ call.content = cPickEscaped
    /\ out = <<"b", ",", "c">>

-----------------------------------------------------------------------------
(* The calls of Dynamic values.                                            *)

\* How many times the tag stands in the text of the evaluation in progress.
Tags(tag) == Len(LitMatches(call.content, tag, <<>>, Text(call.content).lt, 1))

\* How many legacy tags of the text of the evaluation in progress the env
\* entry k replaces.
TagsOf(k) ==
    CASE k = kUser -> Tags(tUser)
      [] k = kChar -> Tags(tBot) + Tags(tChar)
      [] k = kGroup -> Tags(tCharIfNotGroup) + Tags(tGroup)
      [] OTHER -> 0

\* C26: a Dynamic value of the env or of the registry is called once for
\* each place it is put in: once per placeholder of its key that stands in
\* the text when the env pass comes to the key, and not at all when none
\* does.  This holds for user, char and group as for any key: without a
\* legacy tag in the text they are called for their placeholders only.
C26_DynamicCalledPerOccurrence ==
    (call.op = "evaluate" /\ call.env.has /\ ~threw) =>
        \A i \in 1..Len(env.props) :
            env.props[i].value.ty = "function" =>
                Calls(env.props[i].key) =
                    TagsOf(env.props[i].key)
                    + (IF passes = AllPasses
                       THEN Len(Placeholders(substituted[i].before, env.props[i].key))
                       ELSE 0)

-----------------------------------------------------------------------------
(* Names that differ in letter case only.                                  *)

\* The evaluation in progress is of the text foo between braces.
FooEvaluated == call.op = "evaluate" /\ ~threw /\ call.content = Mac(nFoo)

\* C27: a placeholder is matched in any letter case and a key is not, so that
\* two keys that differ in case only stand for the same placeholders.  The
\* registered macro wins over a key of the caller that differs from its name
\* in case only, and of two registered names that differ in case only the one
\* registered last wins.
C27_CaseCollisions ==
    /\ (/\ FooEvaluated
        /\ Keys(call.env.props) = {nFooCap}
        /\ Keys(call.macros) = {nFoo})
          => out = Inserted(Get(call.macros, nFoo), call.esc)
    /\ (/\ FooEvaluated
        /\ call.env.props = <<>>
        /\ Len(call.macros) = 2)
          => out = Inserted(call.macros[2].value, call.esc)

====
